---- MODULE Spec2Model ----
(***************************************************************************)
(* A model of the provider normalization layer of gpuhunt:                 *)
(*   - WebScraper / ScraperProvider (gpuhunt/providers/scraper.py),        *)
(*   - LatitudeProvider and LeaderGPUProvider (the direct adapters),       *)
(*   - default_catalog (gpuhunt/_internal/default.py).                     *)
(*                                                                         *)
(* A number that Python holds as a float is held here as an integer that   *)
(* counts ten-thousandths (Scale), so 1.5 is 15000; counts and core        *)
(* numbers are plain integers.  A JSON value is a record [t, n, s]: its    *)
(* type tag, its number (in ten-thousandths) and its text.                 *)
(***************************************************************************)
EXTENDS Integers, Sequences, FiniteSets, TLC

VARIABLES
    constructed,   \* a WebScraper object exists (WebScraper.__init__ returned)
    api_key,       \* self.api_key of that object
    cache,         \* self._cache: url -> [present, raw]
    first,         \* history: per url, what the call that wrote the cache entry did
    last,          \* the most recent operation: its inputs' kinds and its outcome
    dc             \* default_catalog: its position, the catalog it builds, its lru_cache

vars == <<constructed, api_key, cache, first, last, dc>>

scraperVars == <<constructed, api_key, cache, first>>

(***************************************************************************)
(* Bounds of the model                                                     *)
(***************************************************************************)
MaxBatch == 2           \* longest 'gpus' list the completion service returns

Scale == 10000          \* a float x is held as the integer x * Scale
PosInf == 1000000000    \* stands for float('inf') (above every sample number)
EurToUsd == 11000       \* 1 EUR = 1.10 USD, the rate the adapters' prompts name

(***************************************************************************)
(* JSON values                                                             *)
(***************************************************************************)
Absent    == [t |-> "absent", n |-> 0, s |-> ""]   \* the key is not in the mapping
Null      == [t |-> "null",   n |-> 0, s |-> ""]   \* JSON null: Python None
Num(k)    == [t |-> "num",    n |-> k, s |-> ""]   \* a JSON number, k / Scale
NumStr(k) == [t |-> "numstr", n |-> k, s |-> ""]   \* a JSON string holding the decimal k / Scale
Str(x)    == [t |-> "str",    n |-> 0, s |-> x]    \* a JSON string that is no number
Bool(b)   == [t |-> "bool",   n |-> IF b THEN 1 ELSE 0, s |-> ""]
Whole(k)  == Num(k * Scale)                        \* the JSON number k, an integer
Nested    == [t |-> "list",   n |-> 1, s |-> ""]   \* a non-empty JSON array or object
Huge      == [t |-> "huge",   n |-> 0, s |-> ""]   \* a number literal such as 1e999

\* a lookup that never falls back on the default
GetWithoutDefault(r, k, default) == r[k]

\* dict.get(key, default)
Get(r, k, default) == IF r[k].t = "absent" THEN default ELSE r[k]

\* `x is None` for x = dict.get(key)
IsNone(v) == v.t \in {"absent", "null"}

\* Python truthiness of a decoded JSON value
Truthy(v) ==
    CASE v.t \in {"absent", "null"} -> FALSE
      [] v.t = "num"    -> v.n # 0
      [] v.t = "bool"   -> v.n = 1
      [] v.t = "str"    -> v.s # ""
      [] OTHER          -> TRUE

\* float(x): [exc, n]
PyFloat(v) ==
    CASE v.t = "num"    -> [exc |-> "none", n |-> v.n]
      [] v.t = "numstr" -> [exc |-> "none", n |-> v.n]
      [] v.t = "bool"   -> [exc |-> "none", n |-> v.n * Scale]
      [] v.t = "huge"   -> [exc |-> "none", n |-> PosInf]
      [] v.t = "str"    -> [exc |-> "ValueError", n |-> 0]
      [] OTHER          -> [exc |-> "TypeError", n |-> 0]

\* int(x): [exc, n]; a float is truncated, a string must hold an integer
PyInt(v) ==
    CASE v.t = "num"    -> [exc |-> "none", n |-> v.n \div Scale]
      [] v.t = "numstr" -> IF v.n % Scale = 0
                           THEN [exc |-> "none", n |-> v.n \div Scale]
                           ELSE [exc |-> "ValueError", n |-> 0]
      [] v.t = "bool"   -> [exc |-> "none", n |-> v.n]
      [] v.t = "huge"   -> [exc |-> "OverflowError", n |-> 0]
      [] v.t = "str"    -> [exc |-> "ValueError", n |-> 0]
      [] OTHER          -> [exc |-> "TypeError", n |-> 0]

\* str.upper() on the vendor texts of the model
Upper(x) ==
    CASE x \in {"amd", "Amd", "AMD"}          -> "AMD"
      [] x \in {"nvidia", "Nvidia", "NVIDIA"} -> "NVIDIA"
      [] x \in {"intel", "Intel", "INTEL"}    -> "INTEL"
      [] OTHER                                -> x

IsString(v) == v.t \in {"str", "numstr"}


(***************************************************************************)
(* Texts: a text that the code searches or parses is a sequence of         *)
(* one-character strings                                                   *)
(***************************************************************************)
Digits == {"0", "1", "2", "3", "4", "5", "6", "7", "8", "9"}

IsDigit(ch) == ch \in Digits

DigitValue(ch) ==
    CASE ch = "0" -> 0 [] ch = "1" -> 1 [] ch = "2" -> 2 [] ch = "3" -> 3
      [] ch = "4" -> 4 [] ch = "5" -> 5 [] ch = "6" -> 6 [] ch = "7" -> 7
      [] ch = "8" -> 8 [] ch = "9" -> 9

\* int() of a run of digits
RECURSIVE DigitsToInt(_)
DigitsToInt(ds) ==
    IF ds = <<>> THEN 0
    ELSE 10 * DigitsToInt(SubSeq(ds, 1, Len(ds) - 1)) + DigitValue(ds[Len(ds)])

\* text[i:].startswith(pat)
StartsAt(text, i, pat) ==
    /\ i >= 1
    /\ i + Len(pat) - 1 <= Len(text)
    /\ SubSeq(text, i, i + Len(pat) - 1) = pat

\* pat in text
Contains(text, pat) == \E i \in 1..(Len(text) + 1) : StartsAt(text, i, pat)

\* the end of the longest run of characters of `set` that starts at i (i - 1 when
\* text[i] is not in the set): a greedy \d+ or [^"]+
RECURSIVE RunEnd(_, _, _)
RunEnd(text, i, set) ==
    IF i <= Len(text) /\ text[i] \in set THEN RunEnd(text, i + 1, set) ELSE i - 1

\* the same for the characters that are not in `stop`
RECURSIVE RunEndNot(_, _, _)
RunEndNot(text, i, stop) ==
    IF i <= Len(text) /\ text[i] \notin stop THEN RunEndNot(text, i + 1, stop) ELSE i - 1

\* the place of the leftmost match: the least element of a set of indexes
Least(S) == CHOOSE i \in S : \A j \in S : i <= j

NoText == [some |-> FALSE, text |-> <<>>]     \* None where a text is expected
Some(text) == [some |-> TRUE, text |-> text]

(***************************************************************************)
(* WebScraper.scrape_url: conversion of the raw results (lines 113-138)    *)
(***************************************************************************)
\* An element of the decoded 'gpus' list: a mapping with fields f, or a value
\* that is no mapping (a string, a number, null, a list)
PrimaryKeys == {"name", "memory", "count", "price", "cpu", "ram"}

NoFields ==
    [name |-> Absent, memory |-> Absent, count |-> Absent, price |-> Absent,
     location |-> Absent, cpu |-> Absent, ram |-> Absent, disk |-> Absent,
     spot |-> Absent, vendor |-> Absent]

Mapping(fields) == [ismap |-> TRUE, f |-> fields]
NotAMapping     == [ismap |-> FALSE, f |-> NoFields]

\* a loop without the check of line 118
AllPrimaryNoneUnchecked(result) == FALSE

\* line 118: all(result.get(k) is None for k in [...])
AllPrimaryNone(result) == \A k \in PrimaryKeys : IsNone(result.f[k])

\* line 132: result.get("vendor", "").upper() == "AMD"
VendorOf(result) ==
    LET v == Get(result.f, "vendor", Str("")) IN
    IF ~IsString(v) THEN [exc |-> "AttributeError", vendor |-> "NVIDIA"]
    ELSE [exc |-> "none",
          vendor |-> IF Upper(v.s) = "AMD" THEN "AMD" ELSE "NVIDIA"]

\* line 130: float(result.get("disk")) if result.get("disk") else None
DiskOf(result) ==
    LET d == result.f["disk"] IN
    IF Truthy(d)
    THEN LET c == PyFloat(d) IN [exc |-> c.exc, some |-> TRUE, n |-> c.n]
    ELSE [exc |-> "none", some |-> FALSE, n |-> 0]

\* lines 122-133: the keyword arguments are evaluated in their written order and
\* the first exception ends the construction
ElementError(result) ==
    LET r      == result.f
        memory == PyFloat(Get(r, "memory", Num(0)))
        count  == PyInt(Get(r, "count", Num(1 * Scale)))
        price  == PyFloat(Get(r, "price", Num(0)))
        cpu    == PyInt(Get(r, "cpu", Num(0)))
        ram    == PyFloat(Get(r, "ram", Num(0)))
        disk   == DiskOf(result)
        vendor == VendorOf(result)
    IN  IF memory.exc # "none" THEN memory.exc
        ELSE IF count.exc # "none" THEN count.exc
        ELSE IF price.exc # "none" THEN price.exc
        ELSE IF cpu.exc # "none" THEN cpu.exc
        ELSE IF ram.exc # "none" THEN ram.exc
        ELSE IF disk.exc # "none" THEN disk.exc
        ELSE vendor.exc

\* lines 122-133: the GPUInfo built from an element whose fields all convert
MakeGPUInfo(result) ==
    LET r == result.f
        d == DiskOf(result)
    IN  [name     |-> Get(r, "name", Str("Unknown")),
         memory   |-> PyFloat(Get(r, "memory", Num(0))).n,
         count    |-> PyInt(Get(r, "count", Num(1 * Scale))).n,
         price    |-> PyFloat(Get(r, "price", Num(0))).n,
         location |-> Get(r, "location", Str("Unknown")),
         cpu      |-> PyInt(Get(r, "cpu", Num(0))).n,
         ram      |-> PyFloat(Get(r, "ram", Num(0))).n,
         disk     |-> [some |-> d.some, n |-> d.n],
         spot     |-> Truthy(Get(r, "spot", Bool(FALSE))),
         vendor   |-> VendorOf(result).vendor]

\* lines 134-136: the exceptions the loop catches
CaughtPerElement == {"ValueError", "TypeError"}

\* lines 115-138: [exc, gpu_infos]; exc is the exception that leaves the loop
RECURSIVE ConvertFrom(_, _, _)
ConvertFrom(raw_results, i, gpu_infos) ==
    IF i > Len(raw_results) THEN [exc |-> "none", gpu_infos |-> gpu_infos]
    ELSE LET result == raw_results[i] IN
         IF ~result.ismap
         THEN [exc |-> "AttributeError", gpu_infos |-> <<>>]
         ELSE IF AllPrimaryNone(result)
         THEN ConvertFrom(raw_results, i + 1, gpu_infos)
         ELSE LET exc == ElementError(result) IN
              IF exc = "none"
              THEN ConvertFrom(raw_results, i + 1,
                               Append(gpu_infos, MakeGPUInfo(result)))
              ELSE IF exc \in CaughtPerElement
              THEN ConvertFrom(raw_results, i + 1, gpu_infos)
              ELSE [exc |-> exc, gpu_infos |-> <<>>]

ConvertRawResults(raw_results) == ConvertFrom(raw_results, 1, <<>>)

(***************************************************************************)
(* The inputs of the model: sample elements, batches, responses            *)
(***************************************************************************)
GoodA ==
    Mapping([name |-> Str("A100"), memory |-> Whole(80), count |-> Whole(1),
             price |-> Num(35000), location |-> Str("US"), cpu |-> Whole(8),
             ram |-> Whole(64), disk |-> Whole(100), spot |-> Bool(FALSE),
             vendor |-> Str("NVIDIA")])

\* well formed, numeric fields missing; the key (name, count, location, spot)
\* of GoodA at a lower price
GoodB ==
    Mapping([NoFields EXCEPT !.name = Str("A100"), !.price = Whole(2),
                             !.location = Str("US"), !.cpu = NumStr(8 * Scale)])

GoodAmd ==
    Mapping([NoFields EXCEPT !.name = Str("MI300"), !.memory = Whole(192),
                             !.count = Num(25000), !.price = Num(45000),
                             !.vendor = Str("amd"), !.spot = Bool(TRUE)])

\* a vendor that is neither NVIDIA nor AMD
GoodIntel ==
    Mapping([NoFields EXCEPT !.name = Str("Gaudi2"), !.memory = Whole(96),
                             !.price = Num(15000), !.vendor = Str("Intel")])

\* an unparsable number: float("n/a") raises ValueError
BadNumber == Mapping([GoodA.f EXCEPT !.price = Str("n/a")])

\* "vendor": null
NullVendor == Mapping([GoodA.f EXCEPT !.vendor = Null, !.name = Str("H100")])

\* no primary field at all
Degenerate ==
    Mapping([NoFields EXCEPT !.location = Str("US"), !.vendor = Str("NVIDIA"),
                             !.disk = Whole(100), !.spot = Bool(TRUE)])

\* the primary fields present and null
DegenerateNull ==
    Mapping([NoFields EXCEPT !.name = Null, !.memory = Null, !.count = Null,
                             !.price = Null, !.cpu = Null, !.ram = Null,
                             !.location = Str("US")])

Elements == {GoodA, GoodB, BadNumber, NullVendor, Degenerate, NotAMapping}

Batches == UNION {[1..n -> Elements] : n \in 0..MaxBatch}

\* batches with a 'vendor' field other than NVIDIA, with null fields
VendorBatches == {<<GoodAmd>>, <<GoodIntel>>, <<GoodAmd, GoodIntel>>}
NullBatches   == {<<DegenerateNull>>, <<DegenerateNull, GoodB>>}

URLS == {"u1", "u2"}

\* override_content: None or a text
NoContent == "None"
Contents  == {NoContent, "api json"}

\* what requests.get(url, timeout=30) meets
FetchOutcomes == {"ok", "http_error", "timeout", "connection_error"}

\* what the completion service answers: an error, a text that is no JSON, JSON
\* that is no object, or an object, with or without 'gpus', a list or not
ApiError  == [kind |-> "api_error",  has_gpus |-> FALSE, is_list |-> FALSE, items |-> <<>>]
NotJson   == [kind |-> "not_json",   has_gpus |-> FALSE, is_list |-> FALSE, items |-> <<>>]
NonObject == [kind |-> "non_object", has_gpus |-> FALSE, is_list |-> FALSE, items |-> <<>>]
NoKey     == [kind |-> "object",     has_gpus |-> FALSE, is_list |-> FALSE, items |-> <<>>]
NotList(e) == [kind |-> "object", has_gpus |-> TRUE, is_list |-> FALSE, items |-> <<e>>]
List(b)    == [kind |-> "object", has_gpus |-> TRUE, is_list |-> TRUE,  items |-> b]

Completions ==
    {ApiError, NotJson, NonObject, NoKey}
    \cup {NotList(e) : e \in {GoodA, NotAMapping}}
    \cup {List(b) : b \in Batches \cup VendorBatches \cup NullBatches}

\* the second source answers from a smaller sample
CompletionsFor(url) ==
    IF url = "u1" THEN Completions
    ELSE {ApiError, NoKey, List(<<GoodA>>), List(<<NotAMapping>>)}

\* the kind of a completion, as the log of a call keeps it
RespKind(completion) ==
    IF completion.kind # "object" THEN completion.kind
    ELSE IF ~completion.has_gpus THEN "no_key"
    ELSE IF completion.is_list THEN "list" ELSE "not_list"

(***************************************************************************)
(* WebScraper (scraper.py lines 42-138)                                    *)
(***************************************************************************)
NoEntry  == [present |-> FALSE, raw |-> <<>>]
NotFirst == [set |-> FALSE, exc |-> "none", result |-> <<>>, completions |-> 0]

EmptyCache == [u \in URLS |-> NoEntry]
NoHistory  == [u \in URLS |-> NotFirst]

\* line 51-52: openai_api_key or os.getenv("OPENAI_API_KEY"); `not self.api_key`
NoKeyGiven == "None"
Keys == {NoKeyGiven, "", "sk-test"}

EffectiveKey(openai_api_key, env_key) ==
    IF openai_api_key \notin {NoKeyGiven, ""} THEN openai_api_key ELSE env_key

\* a constructor that does not check the key
KeyMissingUnchecked(key) == FALSE

\* line 52: `if not self.api_key`
KeyMissing(key) == key \in {NoKeyGiven, ""}

\* a cache that is never consulted
CacheHitNever(c, url) == FALSE

\* a cache that serves the first source only
CacheHitFirstSourceOnly(c, url) == url = "u1" /\ c[url].present

\* line 70: url in self._cache
CacheHit(c, url) == c[url].present

\* a fetch whose status is never checked
RaiseForStatusSkipped(fetch) == FALSE

\* a fetch whose failure does not end the call
FetchNeverRaises(fetch) == FALSE

\* lines 81-82: requests.get raises on a timeout or a connection error,
\* raise_for_status on a status that is not 2xx
RaiseForStatus(fetch) == fetch = "http_error"

FetchRaises(fetch) == fetch \in {"timeout", "connection_error"} \/ RaiseForStatus(fetch)

\* lines 91-98: create() raises, json.loads raises on a text that is no JSON,
\* and result.get raises AttributeError on JSON that is no object; all of them
\* inside the try of line 73
CompletionRaises(completion) == completion.kind # "object"

\* lines 102-104: result.get('gpus', []), wrapped in a list when it is none
RawResults(completion) ==
    IF ~completion.has_gpus THEN <<>> ELSE completion.items

\* line 107: self._cache[url] = raw_results
CacheStore(c, url, raw_results) ==
    [c EXCEPT ![url] = [present |-> TRUE, raw |-> raw_results]]

CallLog(url, hit, fetch, resp, fetches, completions) ==
    [url |-> url, hit |-> hit, fetch |-> fetch, resp |-> resp,
     fetches |-> fetches, completions |-> completions]

\* lines 70-138: the call's effect on the cache and its outcome; exc = "none"
\* when the call returns gpu_infos
ScrapeUrl(c, fst, url, override_content, fetch, completion) ==
    IF CacheHit(c, url)
    THEN LET conv == ConvertRawResults(c[url].raw) IN
         [cache |-> c, first |-> fst, exc |-> conv.exc, gpu_infos |-> conv.gpu_infos,
          log |-> CallLog(url, TRUE, "none", "none", 0, 0)]
    ELSE LET need_fetch == override_content = NoContent
             fetches    == IF need_fetch THEN 1 ELSE 0
             fetched    == IF need_fetch THEN fetch ELSE "none"
         IN  IF need_fetch /\ FetchRaises(fetch)
             THEN [cache |-> c, first |-> fst, exc |-> "none", gpu_infos |-> <<>>,
                   log |-> CallLog(url, FALSE, fetched, "none", fetches, 0)]
             ELSE IF CompletionRaises(completion)
             THEN [cache |-> c, first |-> fst, exc |-> "none", gpu_infos |-> <<>>,
                   log |-> CallLog(url, FALSE, fetched, RespKind(completion), fetches, 1)]
             ELSE LET raw_results == RawResults(completion)
                      conv        == ConvertRawResults(raw_results)
                  IN  [cache |-> CacheStore(c, url, raw_results),
                       first |-> [fst EXCEPT ![url] =
                                     [set |-> TRUE, exc |-> conv.exc,
                                      result |-> conv.gpu_infos, completions |-> 1]],
                       exc |-> conv.exc, gpu_infos |-> conv.gpu_infos,
                       log |-> CallLog(url, FALSE, fetched, RespKind(completion), fetches, 1)]

NoOperation == [op |-> "none", exc |-> "none", created |-> FALSE, result |-> <<>>, calls |-> <<>>]

\* WebScraper.__init__ (lines 45-57), reached through ScraperProvider.__init__
\* (line 149) and the subclasses' super().__init__()
WebScraperInit(openai_api_key, env_key) ==
    LET key == EffectiveKey(openai_api_key, env_key) IN
    IF KeyMissing(key)
    THEN /\ last' = [op |-> "init", exc |-> "ValueError", created |-> FALSE,
                     result |-> <<>>,
                     calls |-> <<[openai_api_key |-> openai_api_key, env_key |-> env_key]>>]
         /\ UNCHANGED <<constructed, api_key, cache, first, dc>>
    ELSE /\ constructed' = TRUE
         /\ api_key' = key
         /\ cache' = EmptyCache
         /\ first' = NoHistory
         /\ last' = [op |-> "init", exc |-> "none", created |-> TRUE,
                     result |-> <<>>,
                     calls |-> <<[openai_api_key |-> openai_api_key, env_key |-> env_key]>>]
         /\ UNCHANGED dc

\* WebScraper.scrape_url (lines 59-138)
scrape_url(url, override_content, fetch, completion) ==
    /\ constructed
    /\ \E r \in {ScrapeUrl(cache, first, url, override_content, fetch, completion)} :
          /\ cache' = r.cache
          /\ first' = r.first
          /\ last' = [op |-> "scrape_url", exc |-> r.exc, created |-> FALSE,
                      result |-> r.gpu_infos, calls |-> <<r.log>>]
    /\ UNCHANGED <<constructed, api_key, dc>>

\* An input the call never reads is kept at one value: the page and the
\* completion on a cache hit (the content is given or not), the page when the
\* content is given, the completion when the fetch raises
Consulted(c, url, override_content, fetch, completion) ==
    /\ CacheHit(c, url) => fetch = "ok" /\ completion = ApiError
    /\ override_content # NoContent => fetch = "ok"
    /\ (override_content = NoContent /\ FetchRaises(fetch)) => completion = ApiError

(***************************************************************************)
(* ScraperProvider.get (scraper.py lines 163-198)                          *)
(***************************************************************************)
\* the urls property: one page, as in each subclass (scaleway.py line 19,
\* crusoe.py line 19, genesiscloud.py line 19, seeweb.py line 19)
urls == <<"u1">>

\* the digits after the point of k / 10^width, without the zeros at the end
RECURSIVE FractionText(_, _)
FractionText(k, width) ==
    IF k % 10 = 0 /\ width > 1 THEN FractionText(k \div 10, width - 1)
    ELSE IF width <= 1 THEN ToString(k)
    ELSE FractionText(k \div 10, width - 1) \o ToString(k % 10)

\* str(x) inside an f-string
PyStr(v) ==
    CASE v.t = "str"    -> v.s
      [] v.t = "null"   -> "None"
      [] v.t = "bool"   -> IF v.n = 1 THEN "True" ELSE "False"
      [] v.t \in {"num", "numstr"} ->
            IF v.n % Scale = 0 THEN ToString(v.n \div Scale)
            ELSE ToString(v.n \div Scale) \o "." \o FractionText(v.n % Scale, 4)
      [] v.t = "huge"   -> "inf"
      [] OTHER          -> "[...]"

\* lines 183-195
RawCatalogItem(gpu) ==
    [instance_name |-> PyStr(gpu.name) \o "-" \o ToString(gpu.count) \o "x",
     location      |-> gpu.location,
     price         |-> gpu.price,
     cpu           |-> gpu.cpu,
     memory        |-> gpu.ram,
     gpu_vendor    |-> gpu.vendor,
     gpu_count     |-> gpu.count,
     gpu_name      |-> gpu.name,
     gpu_memory    |-> gpu.memory,
     spot          |-> gpu.spot,
     disk_size     |-> gpu.disk]

\* lines 181-196
Offers(all_gpus) == [i \in 1..Len(all_gpus) |-> RawCatalogItem(all_gpus[i])]

\* sorted(offers, key=lambda i: i.price): stable, ascending
InsertByPrice(sorted, offer) ==
    LET before == {i \in 1..Len(sorted) : sorted[i].price <= offer.price}
        k      == Cardinality(before)
    IN  SubSeq(sorted, 1, k) \o <<offer>> \o SubSeq(sorted, k + 1, Len(sorted))

RECURSIVE SortFrom(_, _, _)
SortFrom(offers, i, sorted) ==
    IF i > Len(offers) THEN sorted
    ELSE SortFrom(offers, i + 1, InsertByPrice(sorted, offers[i]))

SortedByPrice(offers) == SortFrom(offers, 1, <<>>)

\* lines 175-178: the loop over self.urls; an exception of scrape_url ends get
RECURSIVE ScrapeAll(_, _, _)
ScrapeAll(i, inputs, acc) ==
    IF i > Len(urls) \/ acc.exc # "none" THEN acc
    ELSE LET r == ScrapeUrl(acc.cache, acc.first, urls[i], NoContent,
                            inputs[i].fetch, inputs[i].completion)
         IN  ScrapeAll(i + 1, inputs,
                       [cache |-> r.cache, first |-> r.first, exc |-> r.exc,
                        all_gpus |-> acc.all_gpus \o r.gpu_infos,
                        calls |-> Append(acc.calls, r.log)])

\* ScraperProvider.get
get(inputs) ==
    /\ constructed
    /\ \E r \in {ScrapeAll(1, inputs, [cache |-> cache, first |-> first, exc |-> "none",
                                       all_gpus |-> <<>>, calls |-> <<>>])} :
          /\ cache' = r.cache
          /\ first' = r.first
          /\ last' = [op |-> "get", exc |-> r.exc, created |-> FALSE,
                      result |-> IF r.exc = "none"
                                 THEN SortedByPrice(Offers(r.all_gpus)) ELSE <<>>,
                      calls |-> r.calls]
    /\ UNCHANGED <<constructed, api_key, dc>>

GetInputs == [fetch : FetchOutcomes, completion : Completions]


(***************************************************************************)
(* LinodeProvider.get (linode.py lines 75-104)                             *)
(***************************************************************************)
\* a fetch whose failure is not seen
LinodeFetchNeverFails(fetch) == FALSE

\* lines 29-30: requests.get raises on a timeout or a connection error,
\* raise_for_status on a status that is not 2xx
LinodeFetchFails(fetch) == fetch \in {"http_error", "timeout", "connection_error"}

\* lines 79-104: _get_pricing_data fetches urls[0]; its content is given to
\* scrape_url as override_content, which is never None, so scrape_url fetches
\* nothing; line 82 catches every exception of the two calls
LinodeScrape(c, fst, fetch, completion) ==
    IF LinodeFetchFails(fetch)
    THEN [cache |-> c, first |-> fst, offers |-> <<>>,
          log |-> CallLog(urls[1], FALSE, fetch, "none", 1, 0)]
    ELSE LET r == ScrapeUrl(c, fst, urls[1], "api json", "ok", completion) IN
         [cache |-> r.cache, first |-> r.first,
          offers |-> IF r.exc = "none" THEN SortedByPrice(Offers(r.gpu_infos)) ELSE <<>>,
          log |-> [r.log EXCEPT !.fetch = fetch, !.fetches = 1]]

\* LinodeProvider.get
LinodeGet(fetch, completion) ==
    /\ constructed
    /\ \E r \in {LinodeScrape(cache, first, fetch, completion)} :
          /\ cache' = r.cache
          /\ first' = r.first
          /\ last' = [op |-> "linode_get", exc |-> "none", created |-> FALSE,
                      result |-> r.offers, calls |-> <<r.log>>]
    /\ UNCHANGED <<constructed, api_key, dc>>

\* the completion is not asked for when the fetch fails or the url is cached
LinodeConsulted(c, fetch, completion) ==
    (LinodeFetchFails(fetch) \/ CacheHit(c, urls[1])) => completion = ApiError

(***************************************************************************)
(* LatitudeProvider (latitude.py)                                          *)
(***************************************************************************)
\* The pricing page, as BeautifulSoup reads it: script says whether the tag
\* <script id="__NEXT_DATA__"> is absent, holds no string, or holds the text data
Html(script, data) == [script |-> script, data |-> data]

BuildIdPrefix == <<"\"", "b", "u", "i", "l", "d", "I", "d", "\"", ":", "\"">>
Quote == "\""

\* line 76: re.search(r'"buildId":"([^"]+)"', data); the leftmost match
BuildIdStarts(data) ==
    {i \in 1..Len(data) :
        /\ StartsAt(data, i, BuildIdPrefix)
        /\ LET j == i + Len(BuildIdPrefix)
               k == RunEndNot(data, j, {Quote})
           IN  k >= j /\ k + 1 <= Len(data)}

\* lines 60-81: the build id, or None
extract_hash(html_content) ==
    IF html_content.script # "text" THEN NoText
    ELSE IF html_content.data = <<>> THEN NoText
    ELSE IF BuildIdStarts(html_content.data) = {} THEN NoText
    ELSE LET j == Least(BuildIdStarts(html_content.data)) + Len(BuildIdPrefix)
         IN  Some(SubSeq(html_content.data, j, RunEndNot(html_content.data, j, {Quote})))

\* line 51: `if not hash_value`
HashMissing(hash_value) == ~hash_value.some \/ hash_value.text = <<>>

\* a number of the JSON document, or null
NoNumber  == [some |-> FALSE, n |-> 0]
Number(k) == [some |-> TRUE, n |-> k]

\* line 133: re.search(r'(\d+)GB', gpu_name); the leftmost match
GBStarts(gpu_name) ==
    {i \in 1..Len(gpu_name) :
        /\ IsDigit(gpu_name[i])
        /\ StartsAt(gpu_name, RunEnd(gpu_name, i, Digits) + 1, <<"G", "B">>)}

\* lines 130-135
GpuMemoryOf(gpu_name) ==
    IF ~gpu_name.some \/ gpu_name.text = <<>> THEN NoNumber
    ELSE IF GBStarts(gpu_name.text) = {} THEN NoNumber
    ELSE LET i == Least(GBStarts(gpu_name.text))
         IN  Number(Scale * DigitsToInt(SubSeq(gpu_name.text, i,
                                                RunEnd(gpu_name.text, i, Digits))))

\* line 153: 'NVIDIA' if gpu_name and 'NVIDIA' in gpu_name else None
GpuVendorOf(gpu_name) ==
    IF gpu_name.some /\ gpu_name.text # <<>>
       /\ Contains(gpu_name.text, <<"N", "V", "I", "D", "I", "A">>)
    THEN "NVIDIA" ELSE "None"

\* line 142: the first available location of the region, or None
LocationOf(region) ==
    IF region.available # <<>> THEN Some(region.available[1]) ELSE NoText

\* lines 105-162: [exc, item]; item.some is false when the method returns None.
\* plan is the plan's 'attributes'; a null among cores and count makes the
\* product raise TypeError, which line 160 catches
create_raw_catalog_item(plan, region) ==
    LET specs    == plan.specs
        location == LocationOf(region)
        nothing  == [some |-> FALSE, item |-> <<>>]
    IN  IF specs.empty THEN nothing
        ELSE IF ~specs.cores.some \/ ~specs.count.some THEN nothing
        ELSE IF ~location.some \/ location.text = <<>> THEN nothing
        ELSE [some |-> TRUE,
              item |-> [instance_name |-> plan.name,
                        location      |-> location.text,
                        price         |-> region.hour,
                        cpu           |-> specs.cores.n * specs.count.n,
                        memory        |-> specs.total,
                        gpu_vendor    |-> GpuVendorOf(specs.gpu_type),
                        gpu_count     |-> specs.gpu_count,
                        gpu_name      |-> specs.gpu_type,
                        gpu_memory    |-> GpuMemoryOf(specs.gpu_type),
                        spot          |-> FALSE,
                        disk_size     |-> NoNumber]]

\* lines 98-102: the items of one plan, region by region
RECURSIVE PlanItems(_, _, _)
PlanItems(plan, i, offers) ==
    IF i > Len(plan.regions) THEN offers
    ELSE LET r == create_raw_catalog_item(plan, plan.regions[i]) IN
         PlanItems(plan, i + 1, IF r.some THEN Append(offers, r.item) ELSE offers)

\* lines 93-103
RECURSIVE ProcessFrom(_, _, _)
ProcessFrom(plans_data, i, offers) ==
    IF i > Len(plans_data) THEN offers
    ELSE ProcessFrom(plans_data, i + 1,
                     IF ~plans_data[i].has_attributes THEN offers
                     ELSE PlanItems(plans_data[i], 1, offers))

\* lines 83-103: [exc, offers]; pricing_data.get raises AttributeError when the
\* document is no object
process_data(pricing_data) ==
    IF pricing_data.kind # "object" THEN [exc |-> "AttributeError", offers |-> <<>>]
    ELSE [exc |-> "none",
          offers |-> ProcessFrom(IF pricing_data.has_page_props
                                 THEN pricing_data.plans ELSE <<>>, 1, <<>>)]

\* a request of the adapter, as the log keeps it
Request(endpoint, status) == [endpoint |-> endpoint, status |-> status]

\* lines 33-58: [exc, pricing_data, calls, hash_value].  json_error is the class of the
\* exception response.json() raises on a body that is no JSON: a
\* RequestException in requests 2.27 and later, a ValueError before
scrape_latitude_pricing(page, html_content, data, pricing_data, json_error) ==
    LET first_call == <<Request("pricing", page)>>
        both_calls == <<Request("pricing", page), Request("pricing.json", data)>>
        raised(exc, calls) == [exc |-> exc, pricing_data |-> pricing_data, calls |-> calls,
                               hash_value |-> IF FetchRaises(page) THEN NoText
                                              ELSE extract_hash(html_content)]
    IN  IF FetchRaises(page) THEN raised("RequestException", first_call)
        ELSE IF HashMissing(extract_hash(html_content))
        THEN raised("ValueError", first_call)
        ELSE IF FetchRaises(data) THEN raised("RequestException", both_calls)
        ELSE IF pricing_data.kind = "not_json" THEN raised(json_error, both_calls)
        ELSE raised("none", both_calls)

\* line 29: the exceptions get() catches
CaughtByLatitudeGet == {"RequestException"}

\* LatitudeProvider.get (lines 16-31)
LatitudeGet(page, html_content, data, pricing_data, json_error) ==
    /\ \E r \in {scrape_latitude_pricing(page, html_content, data, pricing_data, json_error)} :
       \E p \in {IF r.exc = "none" THEN process_data(r.pricing_data)
                 ELSE [exc |-> r.exc, offers |-> <<>>]} :
          last' = [op |-> "latitude_get",
                   exc |-> IF p.exc \in CaughtByLatitudeGet THEN "none" ELSE p.exc,
                   created |-> FALSE,
                   result |-> p.offers,
                   calls |-> r.calls,
                   hash_value |-> r.hash_value]
    /\ UNCHANGED <<scraperVars, dc>>


(***************************************************************************)
(* LeaderGPU: the parsers of leadergpu.py (lines 12-69)                    *)
(* Sizes and prices are in units of 1/Scale; core and GPU counts are ints. *)
(***************************************************************************)
Whitespace == {" ", "\t", "\n"}      \* \s

UpperLetters == <<"A", "B", "C", "D", "E", "F", "G", "H", "I", "J", "K", "L", "M", "N", "O", "P", "Q", "R", "S", "T", "U", "V", "W", "X", "Y", "Z">>
LowerLetters == <<"a", "b", "c", "d", "e", "f", "g", "h", "i", "j", "k", "l", "m", "n", "o", "p", "q", "r", "s", "t", "u", "v", "w", "x", "y", "z">>

Range(f) == {f[i] : i \in DOMAIN f}

WordChars == Range(UpperLetters) \cup Range(LowerLetters) \cup Digits \cup {"_"}   \* \w

\* re.IGNORECASE compares the lower-case forms
LowerChar(ch) ==
    IF ch \in Range(UpperLetters)
    THEN LowerLetters[CHOOSE i \in DOMAIN UpperLetters : UpperLetters[i] = ch]
    ELSE ch

LowerText(text) == [i \in 1..Len(text) |-> LowerChar(text[i])]

Greatest(S) == CHOOSE i \in S : \A j \in S : i >= j

\* str.strip()
Strip(text) ==
    LET keep == {i \in 1..Len(text) : text[i] \notin Whitespace}
    IN  IF keep = {} THEN <<>> ELSE SubSeq(text, Least(keep), Greatest(keep))

\* text.replace(pat, '')
RECURSIVE Remove(_, _)
Remove(text, pat) ==
    IF text = <<>> THEN <<>>
    ELSE IF StartsAt(text, 1, pat)
         THEN Remove(SubSeq(text, Len(pat) + 1, Len(text)), pat)
         ELSE <<text[1]>> \o Remove(Tail(text), pat)

\* `if not s`: None or the empty text
Falsy(s) == ~s.some \/ s.text = <<>>

RECURSIVE Pow10(_)
Pow10(n) == IF n = 0 THEN 1 ELSE 10 * Pow10(n - 1)

\* the last index of the match of \d+(?:\.\d+)? that starts at the digit i
DecimalEnd(text, i) ==
    LET e == RunEnd(text, i, Digits)
    IN  IF StartsAt(text, e + 1, <<".">>) /\ e + 2 <= Len(text) /\ IsDigit(text[e + 2])
        THEN RunEnd(text, e + 2, Digits)
        ELSE e

\* float() of such a literal, exact for a fraction of up to four digits
DecimalValue(lit) ==
    LET e    == RunEnd(lit, 1, Digits)
        frac == SubSeq(lit, e + 2, Len(lit))
    IN  Scale * DigitsToInt(SubSeq(lit, 1, e))
        + (IF frac = <<>> THEN 0 ELSE (Scale * DigitsToInt(frac)) \div Pow10(Len(frac)))

\* line 16: where r'(\d+(?:\.\d+)?)\s*(?:GB|GiB|G)' matches; every alternative of
\* the unit starts with an upper-case G
MemoryStarts(text) ==
    {i \in 1..Len(text) :
        /\ IsDigit(text[i])
        /\ StartsAt(text, RunEnd(text, DecimalEnd(text, i) + 1, Whitespace) + 1, <<"G">>)}

\* lines 12-17
parse_memory(memory_str) ==
    IF Falsy(memory_str) THEN 0
    ELSE IF MemoryStarts(memory_str.text) = {} THEN 0
    ELSE LET i == Least(MemoryStarts(memory_str.text))
         IN  DecimalValue(SubSeq(memory_str.text, i, DecimalEnd(memory_str.text, i)))

\* line 23: where r'(\d+)\s*(?:cores?|vCPU)' matches, letter case ignored
CoresStarts(text) ==
    {i \in 1..Len(text) :
        /\ IsDigit(text[i])
        /\ LET j == RunEnd(text, RunEnd(text, i, Digits) + 1, Whitespace) + 1
           IN  \/ StartsAt(LowerText(text), j, <<"c", "o", "r", "e">>)
               \/ StartsAt(LowerText(text), j, <<"v", "c", "p", "u">>)}

\* lines 19-24
parse_cpu_cores(cpu_str) ==
    IF Falsy(cpu_str) THEN 0
    ELSE IF CoresStarts(cpu_str.text) = {} THEN 0
    ELSE LET i == Least(CoresStarts(cpu_str.text))
         IN  DigitsToInt(SubSeq(cpu_str.text, i, RunEnd(cpu_str.text, i, Digits)))

NVIDIA == <<"N", "V", "I", "D", "I", "A">>
RTX    == <<"R", "T", "X">>

\* the index after `word\s*` when word starts at j
After(text, j, word) == RunEnd(text, j + Len(word), Whitespace) + 1

\* r'(?:NVIDIA\s*)?(?:RTX\s*)?(\w+(?:\s*\d+)?)' tried at j: where the group
\* starts, 0 when there is no match.  An optional prefix is taken whenever the
\* rest still matches, as the regex engine's backtracking order has it
ModelStart(text, j) ==
    LET n       == StartsAt(text, j, NVIDIA)
        jn      == After(text, j, NVIDIA)
        nr      == n /\ StartsAt(text, jn, RTX)
        jnr     == After(text, jn, RTX)
        r       == StartsAt(text, j, RTX)
        jr      == After(text, j, RTX)
        word(k) == k >= 1 /\ k <= Len(text) /\ text[k] \in WordChars
    IN  IF nr /\ word(jnr) THEN jnr
        ELSE IF n /\ word(jn) THEN jn
        ELSE IF r /\ word(jr) THEN jr
        ELSE IF word(j) THEN j
        ELSE 0

\* the last index of \w+(?:\s*\d+)? that starts at k
ModelEnd(text, k) ==
    LET e == RunEnd(text, k, WordChars)
        w == RunEnd(text, e + 1, Whitespace)
        d == RunEnd(text, w + 1, Digits)
    IN  IF d > w THEN d ELSE e

\* the index after the count and its separator, for a count that starts at i;
\* gap: \s* is allowed between the two (line 35) or not (line 42)
AfterCount(text, i, gap, sep) ==
    LET e == RunEnd(text, i, Digits)
        j == (IF gap THEN RunEnd(text, e + 1, Whitespace) ELSE e) + 1
    IN  IF StartsAt(text, j, sep) THEN After(text, j, sep) ELSE 0

\* lines 35 and 42: where r'(\d+)\s*pcs\s*...' or r'(\d+)x\s*...' matches
CountStarts(text, gap, sep) ==
    {i \in 1..Len(text) :
        /\ IsDigit(text[i])
        /\ AfterCount(text, i, gap, sep) # 0
        /\ ModelStart(text, AfterCount(text, i, gap, sep)) # 0}

\* lines 36-39 and 43-44
Counted(text, i, gap, sep) ==
    LET k == ModelStart(text, AfterCount(text, i, gap, sep))
    IN  [count |-> DigitsToInt(SubSeq(text, i, RunEnd(text, i, Digits))),
         model |-> Strip(SubSeq(text, k, ModelEnd(text, k)))]

\* line 47: where the pattern without a count matches
NoCountStarts(text) == {i \in 1..Len(text) : ModelStart(text, i) # 0}

\* lines 26-51
parse_gpu_count_and_model(gpu_info) ==
    IF Falsy(gpu_info) THEN [count |-> 0, model |-> <<>>]
    ELSE LET text == Strip(Remove(gpu_info.text, <<"G", "P", "U", ":">>))
             pcs  == CountStarts(text, TRUE, <<"p", "c", "s">>)
             x    == CountStarts(text, FALSE, <<"x">>)
             any  == NoCountStarts(text)
         IN  IF pcs # {} THEN Counted(text, Least(pcs), TRUE, <<"p", "c", "s">>)
             ELSE IF x # {} THEN Counted(text, Least(x), FALSE, <<"x">>)
             ELSE IF any # {}
             THEN LET k == ModelStart(text, Least(any))
                  IN  [count |-> 1, model |-> Strip(SubSeq(text, k, ModelEnd(text, k)))]
             ELSE [count |-> 1, model |-> Strip(Remove(Remove(text, NVIDIA), RTX))]

\* a division that drops the digits after the fourth place
TruncatingDiv(p, d) == p \div d

\* round(p / d, 4) of a value p in units of 1/Scale: to the nearest unit, a tie
\* to the even one
RoundDiv(p, d) ==
    LET q == p \div d
        r == p % d
    IN  IF 2 * r < d THEN q
        ELSE IF 2 * r > d THEN q + 1
        ELSE IF q % 2 = 0 THEN q ELSE q + 1

\* lines 53-69
parse_price(price_str) ==
    IF Falsy(price_str) THEN 0
    ELSE IF {i \in 1..Len(price_str.text) : IsDigit(price_str.text[i])} = {} THEN 0
    ELSE LET text  == price_str.text
             i     == Least({j \in 1..Len(text) : IsDigit(text[j])})
             price == DecimalValue(SubSeq(text, i, DecimalEnd(text, i)))
         IN  IF Contains(text, <<"m", "o", "n", "t", "h">>) THEN RoundDiv(price, 24 * 30)
             ELSE IF Contains(text, <<"w", "e", "e", "k">>) THEN RoundDiv(price, 24 * 7)
             ELSE IF Contains(text, <<"d", "a", "y">>) THEN RoundDiv(price, 24)
             ELSE IF Contains(text, <<"m", "i", "n", "u", "t", "e">>) THEN price * 60
             ELSE price

(***************************************************************************)
(* The parsers applied on their own (leadergpu.py lines 12-69)             *)
(***************************************************************************)
\* a number as the source writes it, and its value in units of 1/Scale
Written(text, value) == [text |-> text, value |-> value]

Gaps == {<<>>, <<" ">>}

MemoryNumbers ==
    {Written(<<"1", "6">>, 16 * Scale), Written(<<"6", "4">>, 64 * Scale),
     Written(<<"1", "2", "8">>, 128 * Scale), Written(<<"1", ".", "5">>, 15000)}

MemoryUnits ==
    {<<"G", "B">>, <<"G", "i", "B">>, <<"G">>, <<"g", "b">>, <<"g", "i", "b">>, <<"g">>, <<"G", "b">>, <<"T", "B">>, <<"M", "B">>}

MemoryTexts ==
    {n.text \o g \o u : n \in MemoryNumbers, g \in Gaps, u \in MemoryUnits}
    \cup {<<"i", "n", "v", "a", "l", "i", "d">>, <<"G", "B">>, <<"R", "A", "M", ":", " ", "3", "2", " ", "G", "B", " ", "D", "D", "R", "4">>}

MemoryInputs == {NoText, Some(<<>>)} \cup {Some(t) : t \in MemoryTexts}

\* parse_memory on each input
ParsedMemory == [s \in MemoryInputs |-> parse_memory(s)]

ParseMemory(memory_str) ==
    /\ last' = [op |-> "parse_memory", exc |-> "none", created |-> FALSE,
                result |-> ParsedMemory[memory_str], calls |-> <<memory_str>>]
    /\ UNCHANGED <<scraperVars, dc>>

PriceAmounts ==
    {Written(<<"1", "2", "0", "0">>, 1200 * Scale), Written(<<"3", "0", "0">>, 300 * Scale),
     Written(<<"5", "0">>, 50 * Scale), Written(<<"0", ".", "0", "2">>, 200), Written(<<"2", ".", "5">>, 25000)}

PricePrefixes == {<<>>, <<"E", "U", "R", " ">>, <<"$">>}

PriceTails ==
    {<<>>, <<"/", "m", "o", "n", "t", "h">>, <<"/", "w", "e", "e", "k">>, <<"/", "d", "a", "y">>, <<"/", "m", "i", "n", "u", "t", "e">>, <<" ", "p", "e", "r", " ", "h", "o", "u", "r">>,
     <<"/", "w", "e", "e", "k", " ", "(", "b", "i", "l", "l", "e", "d", " ", "m", "o", "n", "t", "h", "l", "y", ")">>, <<"/", "d", "a", "y", ",", " ", "1", " ", "w", "e", "e", "k", " ", "a", "t", " ", "l", "e", "a", "s", "t">>, <<"/", "m", "i", "n", "u", "t", "e", ",", " ", "u", "p", " ", "t", "o", " ", "1", " ", "d", "a", "y">>}

PriceTexts ==
    {p \o a.text \o t : p \in PricePrefixes, a \in PriceAmounts, t \in PriceTails}
    \cup {<<"i", "n", "v", "a", "l", "i", "d">>, <<"p", "e", "r", " ", "m", "o", "n", "t", "h">>}

PriceInputs == {NoText, Some(<<>>)} \cup {Some(t) : t \in PriceTexts}

\* parse_price on each input
ParsedPrice == [s \in PriceInputs |-> parse_price(s)]

ParsePrice(price_str) ==
    /\ last' = [op |-> "parse_price", exc |-> "none", created |-> FALSE,
                result |-> ParsedPrice[price_str], calls |-> <<price_str>>]
    /\ UNCHANGED <<scraperVars, dc>>

GpuCounts ==
    {Written(<<"4">>, 4), Written(<<"8">>, 8), Written(<<"2">>, 2), Written(<<"1", "6">>, 16)}

GpuModels == {<<"R", "T", "X", " ", "4", "0", "9", "0">>, <<"A", "1", "0", "0">>, <<"H", "1", "0", "0">>, <<"R", "T", "X", " ", "A", "6", "0", "0", "0">>, <<"T", "e", "s", "l", "a", " ", "V", "1", "0", "0">>}

\* what stands between the count and the model
GpuSeparators == {<<"x", " ", "N", "V", "I", "D", "I", "A", " ">>, <<"x", " ">>, <<" ", "p", "c", "s", " ">>, <<" ", "p", "c", "s", " ", "N", "V", "I", "D", "I", "A", " ">>}

GpuTexts ==
    {c.text \o sep \o m : c \in GpuCounts, sep \in GpuSeparators, m \in GpuModels}
    \cup {<<"N", "V", "I", "D", "I", "A", " ">> \o m : m \in GpuModels}
    \cup GpuModels
    \cup {<<"G", "P", "U", ":">> \o c.text \o <<"x", " ", "N", "V", "I", "D", "I", "A", " ">> \o m : c \in GpuCounts, m \in GpuModels}

GpuInputs == {NoText, Some(<<>>)} \cup {Some(t) : t \in GpuTexts}

\* parse_gpu_count_and_model on each input
ParsedGpu == [s \in GpuInputs |-> parse_gpu_count_and_model(s)]

ParseGpuCountAndModel(gpu_info) ==
    /\ last' = [op |-> "parse_gpu_count_and_model", exc |-> "none", created |-> FALSE,
                result |-> ParsedGpu[gpu_info], calls |-> <<gpu_info>>]
    /\ UNCHANGED <<scraperVars, dc>>

(***************************************************************************)
(* LeaderGPUProvider.get (leadergpu.py lines 79-176)                       *)
(***************************************************************************)
\* What BeautifulSoup finds in the page.  A div of the config list: the text
\* get_text(strip=True) gives (the label and the text of the tags inside, joined)
\* and the text of its first <span>, if it has one
Div(label, inner, in_span) ==
    [text |-> label \o inner, span |-> IF in_span THEN Some(inner) ELSE NoText]

NoConfig      == [some |-> FALSE, divs |-> <<>>]
Config(divs)  == [some |-> TRUE, divs |-> divs]
NoPrices      == [some |-> FALSE, items |-> <<>>]
Prices(items) == [some |-> TRUE, items |-> items]

\* a <section class="b-product-gpu">: has it a title div; its config list; its
\* prices div, whose items are the texts of the <p class="text-bold"> of each
\* <li class="d-flex"> (NoText for an li without such a p)
Section(title, config, prices) == [title |-> title, config |-> config, prices |-> prices]

NoConfigFields == [gpu_ram |-> NoText, cpu_info |-> NoText, ram_info |-> NoText,
                   nvme_info |-> NoText]

\* lines 132-141: the labels are tried in this order, a later div overwrites
RECURSIVE ReadConfig(_, _, _)
ReadConfig(divs, i, acc) ==
    IF i > Len(divs) THEN acc
    ELSE LET text  == divs[i].text
             value == divs[i].span
         IN  ReadConfig(divs, i + 1,
                 IF Contains(text, <<"G", "P", "U", " ", "R", "A", "M", ":">>) THEN [acc EXCEPT !.gpu_ram = value]
                 ELSE IF Contains(text, <<"C", "P", "U", ":">>) THEN [acc EXCEPT !.cpu_info = value]
                 ELSE IF Contains(text, <<"R", "A", "M", ":">>) THEN [acc EXCEPT !.ram_info = value]
                 ELSE IF Contains(text, <<"N", "V", "M", "E", ":">>) THEN [acc EXCEPT !.nvme_info = value]
                 ELSE acc)

\* lines 145-153: the first price above zero, else 0.0
RECURSIVE HourlyPrice(_, _)
HourlyPrice(items, i) ==
    IF i > Len(items) THEN 0
    ELSE IF ~Falsy(items[i]) /\ parse_price(items[i]) > 0 THEN parse_price(items[i])
    ELSE HourlyPrice(items, i + 1)

\* str() of a natural number
RECURSIVE NatText(_)
NatText(n) ==
    IF n < 10 THEN <<CHOOSE ch \in Digits : DigitValue(ch) = n>>
    ELSE NatText(n \div 10) \o NatText(n % 10)

\* lines 109-121: the section is skipped
SectionSkipped(section) ==
    ~section.title \/ ~section.config.some \/ section.config.divs = <<>>

\* lines 123-168: the offer of a section that is not skipped
LeaderOffer(section) ==
    LET gpu   == parse_gpu_count_and_model(Some(section.config.divs[1].text))
        conf  == ReadConfig(section.config.divs, 1, NoConfigFields)
    IN  [instance_name |-> gpu.model \o <<"-">> \o NatText(gpu.count) \o <<"x">>,
         location      |-> "EU",
         price         |-> IF section.prices.some
                           THEN HourlyPrice(section.prices.items, 1) ELSE 0,
         cpu           |-> parse_cpu_cores(conf.cpu_info),
         memory        |-> parse_memory(conf.ram_info),
         gpu_vendor    |-> "NVIDIA",
         gpu_count     |-> gpu.count,
         gpu_name      |-> gpu.model,
         gpu_memory    |-> parse_memory(conf.gpu_ram),
         spot          |-> FALSE,
         disk_size     |-> parse_memory(conf.nvme_info)]

\* The body of the response: no JSON, a JSON value that is no object, or an
\* object; matches says whether it has 'matchesHtml', blank whether that is the
\* empty string, gpu_sections what the page holds
BodyNotJson   == [kind |-> "not_json", matches |-> FALSE, blank |-> FALSE, gpu_sections |-> <<>>]
BodyNonObject == [kind |-> "non_object", matches |-> FALSE, blank |-> FALSE, gpu_sections |-> <<>>]
BodyNoMatches == [kind |-> "object", matches |-> FALSE, blank |-> FALSE, gpu_sections |-> <<>>]
BodyBlank     == [kind |-> "object", matches |-> TRUE, blank |-> TRUE, gpu_sections |-> <<>>]
BodyHtml(gpu_sections) ==
    [kind |-> "object", matches |-> TRUE, blank |-> FALSE, gpu_sections |-> gpu_sections]

(***************************************************************************)
(* Sources the direct adapters are run against                             *)
(***************************************************************************)
MaxSections == 3
MaxPlans == 2

GpuDiv4090 == Div(<<"G", "P", "U", ":">>, <<"4", "x", " ", "N", "V", "I", "D", "I", "A", " ", "R", "T", "X", " ", "4", "0", "9", "0">>, FALSE)
GpuDivA100 == Div(<<"G", "P", "U", ":">>, <<"8", " ", "p", "c", "s", " ", "A", "1", "0", "0">>, FALSE)

\* the first section of test_scrape_leadergpu: its prices are in <p> tags that
\* have no class
SectionTest ==
    Section(TRUE,
            Config(<<GpuDiv4090,
                     Div(<<"G", "P", "U", " ", "R", "A", "M", ":">>, <<"2", "4", " ", "G", "B">>, TRUE),
                     Div(<<"C", "P", "U", ":">>, <<"3", "2", " ", "c", "o", "r", "e", "s">>, TRUE),
                     Div(<<"R", "A", "M", ":">>, <<"2", "5", "6", " ", "G", "B">>, TRUE),
                     Div(<<"N", "V", "M", "E", ":">>, <<"2", " ", "T", "B">>, TRUE)>>),
            Prices(<<NoText, NoText>>))

\* the same server with its prices in <p class="text-bold">
SectionMonthly ==
    [SectionTest EXCEPT !.prices = Prices(<<Some(<<"E", "U", "R", " ", "1", "2", "0", "0", "/", "m", "o", "n", "t", "h">>), Some(<<"E", "U", "R", " ", "3", "0", "0", "/", "w", "e", "e", "k">>)>>)]

\* the same GPUs once more, at another price
SectionWeekly ==
    [SectionTest EXCEPT !.prices = Prices(<<Some(<<"f", "r", "e", "e">>), Some(<<"E", "U", "R", " ", "3", "0", "0", "/", "w", "e", "e", "k">>)>>)]

SectionA100 ==
    Section(TRUE,
            Config(<<GpuDivA100,
                     Div(<<"G", "P", "U", " ", "R", "A", "M", ":">>, <<"8", "0", " ", "G", "B">>, TRUE),
                     Div(<<"C", "P", "U", ":">>, <<"6", "4", " ", "v", "C", "P", "U">>, TRUE),
                     Div(<<"R", "A", "M", ":">>, <<"5", "1", "2", " ", "g", "b">>, TRUE),
                     Div(<<"N", "V", "M", "E", ":">>, <<"9", "6", "0", " ", "G", "B">>, FALSE)>>),
            Prices(<<Some(<<"0", ".", "0", "2", "/", "m", "i", "n", "u", "t", "e">>)>>))

SectionNoTitle  == [SectionMonthly EXCEPT !.title = FALSE]
SectionNoConfig == Section(TRUE, NoConfig, NoPrices)
SectionNoDivs   == Section(TRUE, Config(<<>>), NoPrices)

Sections == {SectionTest, SectionMonthly, SectionWeekly, SectionA100,
             SectionNoTitle, SectionNoConfig, SectionNoDivs}

\* lines 107-169, one round of the loop for each section of Sections: no offer
\* for a section that is skipped, else its offer
SectionOffers ==
    [s \in Sections |-> IF SectionSkipped(s) THEN <<>> ELSE <<LeaderOffer(s)>>]

\* lines 105-169
RECURSIVE LeaderOffers(_, _, _)
LeaderOffers(gpu_sections, i, offers) ==
    IF i > Len(gpu_sections) THEN offers
    ELSE LeaderOffers(gpu_sections, i + 1, offers \o SectionOffers[gpu_sections[i]])

LeaderBodies ==
    {BodyNotJson, BodyNonObject, BodyNoMatches, BodyBlank}
    \cup {BodyHtml(s) : s \in UNION {[1..n -> Sections] : n \in 0..MaxSections}}

\* the pricing page of latitude.sh
HtmlNoScript  == Html("absent", <<>>)
HtmlNoString  == Html("no_string", <<>>)
HtmlBlank     == Html("text", <<>>)
HtmlNoBuildId == Html("text", <<"{", "\"", "p", "r", "o", "p", "s", "\"", ":", "{", "}", "}">>)
HtmlEmptyId   == Html("text", <<"{", "\"", "b", "u", "i", "l", "d", "I", "d", "\"", ":", "\"", "\"", "}">>)
HtmlBuildId   == Html("text", <<"{", "\"", "p", "a", "g", "e", "\"", ":", "\"", "/", "\"", ",", "\"", "b", "u", "i", "l", "d", "I", "d", "\"", ":", "\"", "a", "1", "B", "2", "\"", "}">>)

Htmls == {HtmlNoScript, HtmlNoString, HtmlBlank, HtmlNoBuildId, HtmlEmptyId, HtmlBuildId}

Region(available, hour) == [available |-> available, hour |-> hour]

NoSpecs == [empty |-> TRUE, cores |-> NoNumber, count |-> NoNumber, total |-> 0,
            gpu_count |-> 0, gpu_type |-> NoText]

Specs(cores, count, total, gpu_count, gpu_type) ==
    [empty |-> FALSE, cores |-> cores, count |-> count, total |-> total,
     gpu_count |-> gpu_count, gpu_type |-> gpu_type]

Plan(name, specs, regions) ==
    [has_attributes |-> TRUE, name |-> name, specs |-> specs, regions |-> regions]

PlanNoAttributes == [Plan(<<>>, NoSpecs, <<>>) EXCEPT !.has_attributes = FALSE]

PlanH100 ==
    Plan(<<"g", "3", ".", "h", "1", "0", "0">>,
         Specs(Number(16), Number(2), 512, 8, Some(<<"N", "V", "I", "D", "I", "A", " ", "H", "1", "0", "0", " ", "8", "0", "G", "B">>)),
         <<Region(<<<<"D", "A", "L">>, <<"N", "Y", "C">>>>, 25 * Scale), Region(<<<<"L", "O", "N">>>>, 27 * Scale)>>)

\* two regions whose first available location is the same
PlanSameLocation ==
    Plan(<<"g", "3", ".", "a", "1", "0", "0">>,
         Specs(Number(8), Number(1), 256, 4, Some(<<"A", "1", "0", "0", " ", "4", "0", "G", "B">>)),
         <<Region(<<<<"D", "A", "L">>>>, 9 * Scale), Region(<<<<"D", "A", "L">>, <<"L", "O", "N">>>>, 10 * Scale)>>)

PlanCpuOnly ==
    Plan(<<"c", "2", ".", "s", "m", "a", "l", "l">>, Specs(Number(4), Number(1), 32, 0, NoText),
         <<Region(<<>>, Scale), Region(<<<<"S", "A", "O">>>>, Scale \div 2)>>)

PlanNullCores ==
    Plan(<<"c", "2", ".", "o", "d", "d">>, Specs(NoNumber, Number(1), 32, 0, NoText),
         <<Region(<<<<"S", "A", "O">>>>, Scale)>>)

PlanNoSpecs == Plan(<<"c", "2", ".", "n", "o", "n", "e">>, NoSpecs, <<Region(<<<<"S", "A", "O">>>>, Scale)>>)

Plans == {PlanNoAttributes, PlanH100, PlanSameLocation, PlanCpuOnly, PlanNullCores,
          PlanNoSpecs}

PricingNotJson     == [kind |-> "not_json", has_page_props |-> FALSE, plans |-> <<>>]
PricingNonObject   == [kind |-> "non_object", has_page_props |-> FALSE, plans |-> <<>>]
PricingNoPageProps == [kind |-> "object", has_page_props |-> FALSE, plans |-> <<>>]
Pricing(plans)     == [kind |-> "object", has_page_props |-> TRUE, plans |-> plans]

PricingBodies ==
    {PricingNotJson, PricingNonObject, PricingNoPageProps}
    \cup {Pricing(p) : p \in UNION {[1..n -> Plans] : n \in 0..MaxPlans}}

\* what response.json() raises on a body that is no JSON
JsonErrors == {"RequestException", "ValueError"}

\* line 95: requests.get(url) raises when no response arrives; a response of any
\* status is decoded, its status is never looked at
LeaderFetchRaises(fetch) == fetch \in {"timeout", "connection_error"}

\* lines 93-176: [exc, offers], exc being what the try block raises
LeaderScrape(fetch, body) ==
    IF LeaderFetchRaises(fetch) THEN [exc |-> "RequestException", offers |-> <<>>]
    ELSE IF body.kind = "not_json" THEN [exc |-> "JSONDecodeError", offers |-> <<>>]
    ELSE IF body.kind = "non_object" THEN [exc |-> "AttributeError", offers |-> <<>>]
    ELSE IF ~body.matches \/ body.blank THEN [exc |-> "none", offers |-> <<>>]
    ELSE [exc |-> "none", offers |-> LeaderOffers(body.gpu_sections, 1, <<>>)]

\* line 174: `except Exception` takes every exception of the try block
CaughtByLeaderGet(exc) == exc # "none"

\* LeaderGPUProvider.get
LeaderGPUGet(fetch, body) ==
    /\ \E r \in {LeaderScrape(fetch, body)} :
          last' = [op |-> "leadergpu_get",
                   exc |-> IF CaughtByLeaderGet(r.exc) THEN "none" ELSE r.exc,
                   created |-> FALSE,
                   result |-> IF r.exc = "none" THEN r.offers ELSE <<>>,
                   calls |-> <<Request("filter_servers", fetch)>>]
    /\ UNCHANGED <<scraperVars, dc>>


(***************************************************************************)
(* The HTTP requests of the adapters' get() and the time they wait         *)
(* (scraper.py line 81, linode.py line 29, latitude.py lines 45 and 56,    *)
(* leadergpu.py line 95).  Time is counted in seconds.                     *)
(***************************************************************************)
MaxWait == 40           \* how long the wait for one response is followed

Adapters == {"scraper", "linode", "latitude", "leadergpu"}

\* the timeout= argument of each requests.get of a get(), in the order of the
\* calls; NoNumber where the call passes none
RequestTimeouts(adapter) ==
    CASE adapter = "scraper"   -> <<Number(30)>>
      [] adapter = "linode"    -> <<Number(30)>>
      [] adapter = "latitude"  -> <<Number(10), Number(10)>>
      [] adapter = "leadergpu" -> <<NoNumber>>

\* the seconds the source takes to answer a request; NoNumber: it never answers
Delays == {Number(0), Number(5), Number(20), Number(35), NoNumber}

Wait(adapter, delay, request, elapsed) ==
    [adapter |-> adapter, delay |-> delay, request |-> request, elapsed |-> elapsed]

Waiting   == last.op = "get_waiting"
TimeoutOf == RequestTimeouts(last.calls[1].adapter)[last.calls[1].request]

\* get() is called and blocks in its first requests.get
GetStart(adapter, delay) ==
    /\ ~Waiting
    /\ last' = [op |-> "get_waiting", exc |-> "none", created |-> FALSE,
                result |-> <<>>, calls |-> <<Wait(adapter, delay, 1, 0)>>]
    /\ UNCHANGED <<scraperVars, dc>>

\* a second passes with no response and no timeout
Tick ==
    /\ Waiting
    /\ last.calls[1].elapsed < MaxWait
    /\ ~(last.calls[1].delay.some /\ last.calls[1].elapsed >= last.calls[1].delay.n)
    /\ ~(TimeoutOf.some /\ last.calls[1].elapsed >= TimeoutOf.n)
    /\ last' = [last EXCEPT !.calls[1].elapsed = @ + 1]
    /\ UNCHANGED <<scraperVars, dc>>

\* the response arrives before the timeout: the next request of the get() is
\* made, or get() returns what it read
ResponseArrives ==
    /\ Waiting
    /\ last.calls[1].delay.some
    /\ last.calls[1].elapsed = last.calls[1].delay.n
    /\ TimeoutOf.some => last.calls[1].elapsed < TimeoutOf.n
    /\ IF last.calls[1].request < Len(RequestTimeouts(last.calls[1].adapter))
       THEN last' = [last EXCEPT !.calls[1].request = @ + 1, !.calls[1].elapsed = 0]
       ELSE last' = [last EXCEPT !.op = "get_returned", !.created = TRUE]
    /\ UNCHANGED <<scraperVars, dc>>

\* the timeout of the request passes: requests.get raises Timeout, which each
\* get() that passes a timeout turns into an empty list (scraper.py lines 109-111,
\* linode.py lines 82-84, latitude.py lines 29-31)
TimeoutExpires ==
    /\ Waiting
    /\ TimeoutOf.some
    /\ last.calls[1].elapsed = TimeoutOf.n
    /\ last' = [last EXCEPT !.op = "get_returned"]
    /\ UNCHANGED <<scraperVars, dc>>

(***************************************************************************)
(* Azure: gpu_vm_series and get_gpu_name_memory (azure.py lines 23-40 and  *)
(* 105-112)                                                                *)
(***************************************************************************)
\* A pattern of gpu_vm_series is a sequence of parts: a literal text, (\d+), or
\* an optional text (r?, m?, (?:_Promo)?)
Lit(s)    == [k |-> "lit", s |-> s]
Opt(s)    == [k |-> "opt", s |-> s]
DigitsOne == [k |-> "digits", s |-> <<>>]

VMSeries(pattern, gpu_name, gpu_memory) ==
    [pattern |-> pattern, gpu_name |-> gpu_name, gpu_memory |-> gpu_memory]

\* lines 24-40, in the order of the list
gpu_vm_series ==
    << VMSeries(<<Lit(<<"N", "C">>), DigitsOne, Lit(<<"a", "d", "s", "_", "A", "1", "0", "0", "_", "v", "4">>)>>, "A100", Number(80 * Scale)),
       VMSeries(<<Lit(<<"N", "C">>), DigitsOne, Lit(<<"a", "d", "s", "_", "A", "1", "0", "_", "v", "4">>)>>, "A10", NoNumber),
       VMSeries(<<Lit(<<"N", "C">>), DigitsOne, Lit(<<"a", "s", "_", "T", "4", "_", "v", "3">>)>>, "T4", Number(16 * Scale)),
       VMSeries(<<Lit(<<"N", "C">>), DigitsOne, Opt(<<"r">>), Opt(<<"_", "P", "r", "o", "m", "o">>)>>, "K80", NoNumber),
       VMSeries(<<Lit(<<"N", "C">>), DigitsOne, Opt(<<"r">>), Lit(<<"s", "_", "v", "2">>)>>, "P100", NoNumber),
       VMSeries(<<Lit(<<"N", "C">>), DigitsOne, Opt(<<"r">>), Lit(<<"s", "_", "v", "3">>)>>, "V100", Number(16 * Scale)),
       VMSeries(<<Lit(<<"N", "D">>), DigitsOne, Lit(<<"a", "m", "s", "r", "_", "A", "1", "0", "0", "_", "v", "4">>)>>, "A100", Number(80 * Scale)),
       VMSeries(<<Lit(<<"N", "D">>), DigitsOne, Lit(<<"a", "s", "r", "_", "v", "4">>)>>, "A100", Number(40 * Scale)),
       VMSeries(<<Lit(<<"N", "D">>), DigitsOne, Lit(<<"r", "s", "_", "v", "2">>)>>, "V100", Number(32 * Scale)),
       VMSeries(<<Lit(<<"N", "D">>), DigitsOne, Opt(<<"r">>), Lit(<<"s">>)>>, "P40", NoNumber),
       VMSeries(<<Lit(<<"N", "G">>), DigitsOne, Lit(<<"a", "d">>), Opt(<<"m">>), Lit(<<"s", "_", "V", "6", "2", "0", "_", "v", "1">>)>>, "V620", NoNumber),
       VMSeries(<<Lit(<<"N", "V">>), DigitsOne>>, "M60", NoNumber),
       VMSeries(<<Lit(<<"N", "V">>), DigitsOne, Lit(<<"a", "d">>), Opt(<<"m">>), Lit(<<"s", "_", "A", "1", "0", "_", "v", "5">>)>>, "A10", NoNumber),
       VMSeries(<<Lit(<<"N", "V">>), DigitsOne, Lit(<<"a", "s", "_", "v", "4">>)>>, "MI25", NoNumber),
       VMSeries(<<Lit(<<"N", "V">>), DigitsOne, Lit(<<"s", "_", "v", "3">>)>>, "M60", NoNumber) >>

\* a pattern that stops matching at any place: `$` left out
AtEndOrBefore(text, j) == TRUE

\* `$` at j: the end of the text, or the last character when it is a newline
AtEnd(text, j) ==
    \/ j = Len(text) + 1
    \/ j = Len(text) /\ text[j] = "\n"

\* the parts from t on match text from j up to `$`, whatever the engine has to
\* backtrack over
RECURSIVE MatchFrom(_, _, _, _)
MatchFrom(parts, t, text, j) ==
    IF t > Len(parts) THEN AtEnd(text, j)
    ELSE LET p == parts[t] IN
         CASE p.k = "lit" ->
                StartsAt(text, j, p.s) /\ MatchFrom(parts, t + 1, text, j + Len(p.s))
           [] p.k = "opt" ->
                \/ StartsAt(text, j, p.s) /\ MatchFrom(parts, t + 1, text, j + Len(p.s))
                \/ MatchFrom(parts, t + 1, text, j)
           [] p.k = "digits" ->
                \E e \in j..RunEnd(text, j, Digits) : MatchFrom(parts, t + 1, text, e + 1)

\* line 107: re.match(f"^Standard_{pattern}$", vm_name) is not None
SeriesMatches(pattern, vm_name) ==
    MatchFrom(<<Lit(<<"S", "t", "a", "n", "d", "a", "r", "d", "_">>)>> \o pattern, 1, vm_name, 1)

\* an unknown name taken for one of the first series
ResolvedAsFirst == [gpu_name |-> "A100", gpu_memory |-> Number(80 * Scale)]

\* lines 111-112
NotResolved == [gpu_name |-> "None", gpu_memory |-> NoNumber]

\* lines 106-112: the loop from rule i on
RECURSIVE ScanSeries(_, _)
ScanSeries(vm_name, i) ==
    IF i > Len(gpu_vm_series) THEN NotResolved
    ELSE IF ~SeriesMatches(gpu_vm_series[i].pattern, vm_name) THEN ScanSeries(vm_name, i + 1)
    ELSE [gpu_name |-> gpu_vm_series[i].gpu_name, gpu_memory |-> gpu_vm_series[i].gpu_memory]

\* a scan that leaves the first rule out
get_gpu_name_memory_from_second(vm_name) == ScanSeries(vm_name, 2)

\* lines 105-112
get_gpu_name_memory(vm_name) == ScanSeries(vm_name, 1)

\* the digits the synthetic names are written with
DigitRuns == {<<"6">>, <<"2", "4">>, <<"9", "6">>}

\* the texts that match exactly the parts from t on
RECURSIVE Expand(_, _)
Expand(parts, t) ==
    IF t > Len(parts) THEN {<<>>}
    ELSE LET rest == Expand(parts, t + 1)
             p    == parts[t]
         IN  CASE p.k = "lit"    -> {p.s \o x : x \in rest}
               [] p.k = "opt"    -> {p.s \o x : x \in rest} \cup rest
               [] p.k = "digits" -> {d \o x : d \in DigitRuns, x \in rest}

\* Standard_<text matching exactly the pattern of rule i>
SyntheticNames(i) == {<<"S", "t", "a", "n", "d", "a", "r", "d", "_">> \o x : x \in Expand(gpu_vm_series[i].pattern, 1)}

\* names no rule is written for
OtherNames ==
    {<<>>, <<"S", "t", "a", "n", "d", "a", "r", "d", "_", "D", "2", "s", "_", "v", "3">>, <<"S", "t", "a", "n", "d", "a", "r", "d", "_", "N", "C", "6", "s", "_", "v", "4">>, <<"N", "C", "6">>, <<"s", "t", "a", "n", "d", "a", "r", "d", "_", "n", "c", "6">>,
     <<"S", "t", "a", "n", "d", "a", "r", "d", "_", "N", "C">>, <<"S", "t", "a", "n", "d", "a", "r", "d", "_", "N", "V", "6", "x">>, <<"S", "t", "a", "n", "d", "a", "r", "d", "_", "N", "D", "4", "0", "r", "s", "_", "v", "2", "_", "P", "r", "o", "m", "o">>,
     <<"S", "t", "a", "n", "d", "a", "r", "d", "_", "N", "V", "6">> \o <<"\n">>, <<"S", "t", "a", "n", "d", "a", "r", "d", "_", "H", "B", "1", "2", "0", "r", "s", "_", "v", "3">>, <<"B", "a", "s", "i", "c", "_", "A", "1">>}

VmNames == UNION {SyntheticNames(i) : i \in DOMAIN gpu_vm_series} \cup OtherNames

\* get_gpu_name_memory, called on its own
GetGpuNameMemory(vm_name) ==
    /\ last' = [op |-> "get_gpu_name_memory", exc |-> "none", created |-> FALSE,
                result |-> get_gpu_name_memory(vm_name),
                calls |-> <<vm_name>>]
    /\ UNCHANGED <<scraperVars, dc>>

(***************************************************************************)
(* AzureProvider.fill_details (azure.py lines 71-102)                      *)
(***************************************************************************)
MaxSkus   == 2          \* longest list resource_skus.list() gives
MaxOffers == 1          \* longest list of offers given to fill_details

\* resource.capabilities as the dict of line 77: a value is a text, or is absent
Capabilities(gpus, vcpus, memory_gb) == [GPUs |-> gpus, vCPUs |-> vcpus, MemoryGB |-> memory_gb]

Resource(resource_type, name, capabilities) ==
    [resource_type |-> resource_type, name |-> name, capabilities |-> capabilities]

\* int(text) and float(text) accept the text
IsIntText(text) == text # <<>> /\ RunEnd(text, 1, Digits) = Len(text)
IsDecimalText(text) ==
    text # <<>> /\ IsDigit(text[1]) /\ DecimalEnd(text, 1) = Len(text)

\* lines 77-90: [exc, offer]; the statements raise in their written order
Detail(resource) ==
    LET c        == resource.capabilities
        resolved == IF c.GPUs.some THEN get_gpu_name_memory(resource.name)
                    ELSE [gpu_name |-> "None", gpu_memory |-> NoNumber]
        raised(exc) == [exc |-> exc, offer |-> <<>>]
    IN  IF c.GPUs.some /\ ~IsIntText(c.GPUs.text) THEN raised("ValueError")
        ELSE IF ~c.vCPUs.some THEN raised("KeyError")
        ELSE IF ~c.MemoryGB.some THEN raised("KeyError")
        ELSE IF ~IsDecimalText(c.MemoryGB.text) THEN raised("ValueError")
        ELSE [exc |-> "none",
              offer |-> [instance_name |-> resource.name,
                         location      |-> "-",
                         cpu           |-> c.vCPUs.text,
                         memory        |-> DecimalValue(c.MemoryGB.text),
                         gpu_count     |-> IF c.GPUs.some THEN DigitsToInt(c.GPUs.text) ELSE 0,
                         gpu_name      |-> resolved.gpu_name,
                         gpu_memory    |-> resolved.gpu_memory]]

\* lines 74-90: [exc, details]; details is the dict as the list of its
\* assignments, the last one for a name being the value of the key
RECURSIVE BuildDetails(_, _, _)
BuildDetails(resources, i, details) ==
    IF i > Len(resources) THEN [exc |-> "none", details |-> details]
    ELSE IF resources[i].resource_type # "virtualMachines"
    THEN BuildDetails(resources, i + 1, details)
    ELSE LET d == Detail(resources[i]) IN
         IF d.exc # "none" THEN [exc |-> d.exc, details |-> details]
         ELSE BuildDetails(resources, i + 1, Append(details, d.offer))

\* line 93: details.get(name): the place of the value, 0 for None
DetailsGet(details, name) ==
    LET at == {i \in 1..Len(details) : details[i].instance_name = name}
    IN  IF at = {} THEN 0 ELSE Greatest(at)

\* lines 91-102
RECURSIVE FillFrom(_, _, _, _)
FillFrom(details, offers, i, output) ==
    IF i > Len(offers) THEN output
    ELSE LET k == DetailsGet(details, offers[i].instance_name) IN
         FillFrom(details, offers, i + 1,
                  IF k = 0 THEN output
                  ELSE Append(output,
                              [instance_name |-> offers[i].instance_name,
                               location      |-> offers[i].location,
                               price         |-> offers[i].price,
                               spot          |-> offers[i].spot,
                               cpu           |-> details[k].cpu,
                               memory        |-> details[k].memory,
                               gpu_count     |-> details[k].gpu_count,
                               gpu_name      |-> details[k].gpu_name,
                               gpu_memory    |-> details[k].gpu_memory]))

\* lines 71-102: [exc, output]
fill_details(resources, offers) ==
    LET d == BuildDetails(resources, 1, <<>>) IN
    IF d.exc # "none" THEN [exc |-> d.exc, output |-> <<>>]
    ELSE [exc |-> "none", output |-> FillFrom(d.details, offers, 1, <<>>)]

\* AzureProvider.fill_details
FillDetails(resources, offers) ==
    /\ \E r \in {fill_details(resources, offers)} :
          last' = [op |-> "fill_details", exc |-> r.exc, created |-> FALSE,
                   result |-> r.output,
                   calls |-> <<[resources |-> resources, offers |-> offers]>>]
    /\ UNCHANGED <<scraperVars, dc>>

\* what the resource API lists
UnknownName == <<"S", "t", "a", "n", "d", "a", "r", "d", "_", "N", "X", "8", "_", "v", "9">>

Skus ==
    {Resource("virtualMachines", <<"S", "t", "a", "n", "d", "a", "r", "d", "_", "N", "C", "6">>,
              Capabilities(Some(<<"1">>), Some(<<"6">>), Some(<<"5", "6">>))),
     Resource("virtualMachines", UnknownName,
              Capabilities(Some(<<"2">>), Some(<<"8">>), Some(<<"2", "7", ".", "5">>))),
     Resource("virtualMachines", <<"S", "t", "a", "n", "d", "a", "r", "d", "_", "D", "2", "s", "_", "v", "3">>,
              Capabilities(NoText, Some(<<"2">>), Some(<<"8">>))),
     Resource("disks", <<"P", "r", "e", "m", "i", "u", "m", "_", "L", "R", "S">>, Capabilities(NoText, NoText, NoText)),
     Resource("virtualMachines", <<"S", "t", "a", "n", "d", "a", "r", "d", "_", "N", "V", "6">>,
              Capabilities(Some(<<"1">>), NoText, Some(<<"5", "6">>)))}

SkuLists == UNION {[1..n -> Skus] : n \in 0..MaxSkus}

\* the offers AzureProvider.get made of the price list
InstanceOffer(instance_name, location, price, spot) ==
    [instance_name |-> instance_name, location |-> location, price |-> price, spot |-> spot]

PricedOffers ==
    {InstanceOffer(UnknownName, "eastus", 12 * Scale, FALSE),
     InstanceOffer(<<"S", "t", "a", "n", "d", "a", "r", "d", "_", "M", "8">>, "eastus", 9000, TRUE)}

OfferLists == UNION {[1..n -> PricedOffers] : n \in 0..MaxOffers}

(***************************************************************************)
(* AzureProvider.get (azure.py lines 49-69)                                *)
(***************************************************************************)
MaxPages == 3           \* files 0000.json .. in cache_dir

\* an element of data["Items"]
Item(armSkuName, armRegionName, retailPrice, meterName) ==
    [armSkuName |-> armSkuName, armRegionName |-> armRegionName,
     retailPrice |-> retailPrice, meterName |-> meterName]

ItemOnDemand    == Item(<<"S", "t", "a", "n", "d", "a", "r", "d", "_", "N", "C", "6">>, "eastus", 9000, <<"N", "C", "6">>)
ItemSpot        == Item(<<"S", "t", "a", "n", "d", "a", "r", "d", "_", "N", "C", "6">>, "eastus", 1800, <<"N", "C", "6", " ", "S", "p", "o", "t">>)
ItemLowPriority == Item(<<"S", "t", "a", "n", "d", "a", "r", "d", "_", "N", "C", "6">>, "westeurope", 2000, <<"N", "C", "6", " ", "L", "o", "w", " ", "P", "r", "i", "o", "r", "i", "t", "y">>)
ItemLowerCase   == Item(UnknownName, "westeurope", 12 * Scale, <<"N", "X", "8", " ", "s", "p", "o", "t">>)

\* data["NextPageLink"]: null, "", or the link of the next page
NextLink == Some(<<"p", "?", "s", "k", "i", "p", "=", "1">>)

Page(items, link) == [Items |-> items, NextPageLink |-> link]

Pages ==
    {Page(<<ItemOnDemand>>, NextLink), Page(<<ItemSpot, ItemLowPriority>>, NextLink),
     Page(<<>>, NextLink), Page(<<ItemLowerCase, ItemSpot>>, Some(<<>>)),
     Page(<<ItemOnDemand>>, NoText), Page(<<>>, Some(<<>>))}

\* the file of a page number that cache_dir does not hold
NoFile == [Items |-> <<>>, NextPageLink |-> Some(<<"-">>)]

\* cache_dir: which of the files 0000.json, 0001.json, ... exist, and their JSON
CacheDirs == [0..(MaxPages - 1) -> Pages \cup {NoFile}]

\* a link that only null ends
NoNextPageNullOnly(data) == data.NextPageLink = NoText

\* line 66: not data["NextPageLink"], true of None and of ""
NoNextPage(data) == data.NextPageLink = NoText \/ data.NextPageLink = Some(<<>>)

\* lines 58-63
PageOffer(item) ==
    InstanceOffer(item.armSkuName, item.armRegionName, item.retailPrice,
                  Contains(item.meterName, <<"S", "p", "o", "t">>))

\* lines 56-68: the while loop from `page` on; line 50 raises when the file of the
\* page does not exist
RECURSIVE ReadPages(_, _, _, _)
ReadPages(cache_dir, page, offers, read) ==
    IF page \notin DOMAIN cache_dir \/ cache_dir[page] = NoFile
    THEN [exc |-> "FileNotFoundError", offers |-> <<>>, read |-> read]
    ELSE LET data  == cache_dir[page]
             added == offers \o [i \in 1..Len(data.Items) |-> PageOffer(data.Items[i])]
         IN  IF NoNextPage(data)
             THEN [exc |-> "none", offers |-> added, read |-> Append(read, page)]
             ELSE ReadPages(cache_dir, page + 1, added, Append(read, page))

\* AzureProvider.get
AzureGet(cache_dir) ==
    /\ \E r \in {ReadPages(cache_dir, 0, <<>>, <<>>)} :
          last' = [op |-> "azure_get", exc |-> r.exc, created |-> FALSE,
                   result |-> r.offers,
                   calls |-> <<[cache_dir |-> cache_dir, read |-> r.read]>>]
    /\ UNCHANGED <<scraperVars, dc>>

(***************************************************************************)
(* default_catalog (_internal/default.py lines 12-64)                      *)
(***************************************************************************)
ONLINE_PROVIDERS ==
    <<"cudo", "tensordock", "vastai", "vultr", "latitude", "crusoe",
      "genesiscloud", "leadergpu", "linode", "nebius", "scaleway", "seeweb">>

\* lines 49-54: constructed, then left out of the catalog
SkippedProviders == {"nebius", "scaleway"}

\* what importing the module and constructing the provider (lines 46-47) ends
\* with; a ScraperProvider without an API key raises ValueError, an "Exception".
\* Catalog.add_provider (line 55) appends the provider to the catalog's list
LoadOutcomes == {"ok", "ImportError", "AttributeError", "Exception"}

\* a loop without its last handler
HandledWithoutCatchAll == {"ImportError", "AttributeError"}

\* lines 57-62: the exceptions the loop handles (it logs and goes on)
HandledInLoop == {"ImportError", "AttributeError", "Exception"}

\* pc: idle (no catalog built yet), loop (before provider i), done (returned, and
\* kept by lru_cache), raised; ok: the providers constructed so far; providers:
\* the catalog's providers, in the order of add_provider; load_raised: a call
\* ended in catalog.load() raising; cached: a later call got the kept catalog
NotCalled ==
    [pc |-> "idle", i |-> 1, ok |-> {}, providers |-> <<>>, load_raised |-> FALSE,
     cached |-> FALSE]

\* lines 21-23: a call builds the catalog; catalog.load() is outside every try,
\* and lru_cache keeps nothing of a call that raises
DefaultCatalogCall(load) ==
    /\ dc.pc = "idle"
    /\ dc' = IF load = "raises" THEN [dc EXCEPT !.load_raised = TRUE]
             ELSE [dc EXCEPT !.pc = "loop"]
    /\ UNCHANGED <<scraperVars, last>>

\* lines 41-62: one round of the loop
LoadProvider(outcome) ==
    /\ dc.pc = "loop"
    /\ dc.i <= Len(ONLINE_PROVIDERS)
    /\ LET provider_name == ONLINE_PROVIDERS[dc.i] IN
       dc' = IF outcome = "ok"
             THEN [dc EXCEPT !.i = dc.i + 1,
                             !.ok = dc.ok \cup {provider_name},
                             !.providers = IF provider_name \in SkippedProviders
                                           THEN dc.providers
                                           ELSE Append(dc.providers, provider_name)]
             ELSE IF outcome \in HandledInLoop
             THEN [dc EXCEPT !.i = dc.i + 1]
             ELSE [dc EXCEPT !.pc = "raised"]
    /\ UNCHANGED <<scraperVars, last>>

\* line 64: return catalog; lru_cache keeps it
DefaultCatalogReturn ==
    /\ dc.pc = "loop"
    /\ dc.i > Len(ONLINE_PROVIDERS)
    /\ dc' = [dc EXCEPT !.pc = "done"]
    /\ UNCHANGED <<scraperVars, last>>

\* line 15: a later call returns the catalog of the first
DefaultCatalogCached ==
    /\ dc.pc = "done"
    /\ dc' = [dc EXCEPT !.cached = TRUE]
    /\ UNCHANGED <<scraperVars, last>>

Init ==
    /\ constructed = FALSE
    /\ api_key = NoKeyGiven
    /\ cache = EmptyCache
    /\ first = NoHistory
    /\ last = NoOperation
    /\ dc = NotCalled

Next ==
    \/ \E k \in Keys, e \in Keys : WebScraperInit(k, e)
    \/ \E u \in URLS, o \in Contents, f \in FetchOutcomes :
       \E c \in CompletionsFor(u) :
          /\ Consulted(cache, u, o, f, c)
          /\ scrape_url(u, o, f, c)
    \/ \E inputs \in [1..Len(urls) -> GetInputs] :
          /\ \A i \in 1..Len(urls) :
                Consulted(cache, urls[i], NoContent, inputs[i].fetch, inputs[i].completion)
          /\ get(inputs)

Spec == Init /\ [][Next]_vars

\* a LinodeProvider object: its construction, its get(), and scrape_url called on
\* its scraper
NextLinode ==
    \/ \E k \in Keys, e \in Keys : WebScraperInit(k, e)
    \/ \E u \in URLS, o \in Contents, f \in FetchOutcomes :
       \E c \in CompletionsFor(u) :
          /\ Consulted(cache, u, o, f, c)
          /\ scrape_url(u, o, f, c)
    \/ \E f \in FetchOutcomes, c \in Completions :
          /\ LinodeConsulted(cache, f, c)
          /\ LinodeGet(f, c)

SpecLinode == Init /\ [][NextLinode]_vars

\* default_catalog alone
NextCatalog ==
    \/ \E load \in {"ok", "raises"} : DefaultCatalogCall(load)
    \/ \E outcome \in LoadOutcomes : LoadProvider(outcome)
    \/ DefaultCatalogReturn
    \/ DefaultCatalogCached

SpecCatalog == Init /\ [][NextCatalog]_vars

\* The adapters that read their source themselves.  An input the call never
\* reads is kept at one value
LatitudeConsulted(page, html_content, data, pricing_data, json_error) ==
    LET got_page == ~FetchRaises(page)
        got_hash == got_page /\ ~HashMissing(extract_hash(html_content))
        got_data == got_hash /\ ~FetchRaises(data)
    IN  /\ got_page \/ html_content = HtmlNoScript
        /\ got_hash \/ data = "ok"
        /\ got_data \/ pricing_data = PricingNotJson
        /\ (got_data /\ pricing_data.kind = "not_json") \/ json_error = "ValueError"

LeaderConsulted(fetch, body) == ~LeaderFetchRaises(fetch) \/ body = BodyNotJson

NextDirect ==
    \/ \E page \in FetchOutcomes, html_content \in Htmls, data \in FetchOutcomes,
          pricing_data \in PricingBodies, json_error \in JsonErrors :
          /\ LatitudeConsulted(page, html_content, data, pricing_data, json_error)
          /\ LatitudeGet(page, html_content, data, pricing_data, json_error)
    \/ \E fetch \in FetchOutcomes, body \in LeaderBodies :
          /\ LeaderConsulted(fetch, body)
          /\ LeaderGPUGet(fetch, body)

SpecDirect == Init /\ [][NextDirect]_vars

\* the Azure provider's identity resolver and its use
NextAzure ==
    \/ \E vm_name \in VmNames : GetGpuNameMemory(vm_name)
    \/ \E resources \in SkuLists, offers \in OfferLists : FillDetails(resources, offers)

SpecAzure == Init /\ [][NextAzure]_vars

\* AzureProvider.get over the cached price pages
NextAzureGet == \E cache_dir \in CacheDirs : AzureGet(cache_dir)

SpecAzureGet == Init /\ [][NextAzureGet]_vars

\* the parsers of leadergpu.py, each on its own
NextParsers ==
    \/ \E memory_str \in MemoryInputs : ParseMemory(memory_str)
    \/ \E price_str \in PriceInputs : ParsePrice(price_str)
    \/ \E gpu_info \in GpuInputs : ParseGpuCountAndModel(gpu_info)

SpecParsers == Init /\ [][NextParsers]_vars

\* the adapters' get() waiting for their sources; time passes, responses arrive
\* and timeouts expire without fail
NextNetwork ==
    \/ \E adapter \in Adapters, delay \in Delays : GetStart(adapter, delay)
    \/ Tick
    \/ ResponseArrives
    \/ TimeoutExpires

SpecNetwork ==
    /\ Init
    /\ [][NextNetwork]_vars
    /\ WF_vars(Tick)
    /\ WF_vars(ResponseArrives)
    /\ WF_vars(TimeoutExpires)

(***************************************************************************)
(* Properties of WebScraper and ScraperProvider (checked under Spec)       *)
(***************************************************************************)
FetchFailures   == {"http_error", "timeout", "connection_error"}
ExtractFailures == {"api_error", "not_json", "non_object", "no_key"}

\* the call whose log this is met a failure of the fetch or of the extraction
SourceFailed(log) == log.fetch \in FetchFailures \/ log.resp \in ExtractFailures

\* C1: once a scrape_url call for a url has cached its batch and returned, a later
\* scrape_url call for that url makes no completion-service call (one call in
\* total over the two) and returns the list the first call returned.
C1_SecondCallServedFromCache ==
    [][\A u \in URLS :
          (/\ constructed /\ constructed'
           /\ first[u].set /\ first[u].exc = "none" /\ first'[u] = first[u]
           /\ last'.op = "scrape_url" /\ last'.calls[1].url = u)
          => /\ last'.calls[1].completions = 0
             /\ first[u].completions + last'.calls[1].completions = 1
             /\ last'.exc = "none"
             /\ last'.result = first[u].result]_vars

C1_Witness ==
    /\ last.op = "scrape_url"
    /\ last.calls[1].hit
    /\ first[last.calls[1].url].set
    /\ first[last.calls[1].url].exc = "none"
    /\ Len(last.result) = 2
    /\ last.result = first[last.calls[1].url].result

\* C2: scrape_url never raises: whatever the fetch and the completion service
\* give, the call returns a list.
C2_ScrapeUrlNeverRaises ==
    last.op = "scrape_url" => last.exc = "none"

\* C3: a failed extraction (a failed fetch or completion call, a response that is
\* no JSON, a decoded response without 'gpus') leaves no cache entry for the url.
C3_FailedExtractionNotCached ==
    (last.op = "scrape_url" /\ SourceFailed(last.calls[1]))
        => ~cache[last.calls[1].url].present

\* the elements of a batch that convert on their own, as records, in order
ConvertsAlone(e) == e.ismap /\ ~AllPrimaryNone(e) /\ ElementError(e) = "none"

RECURSIVE WellFormedRecords(_)
WellFormedRecords(batch) ==
    IF batch = <<>> THEN <<>>
    ELSE (IF ConvertsAlone(Head(batch)) THEN <<MakeGPUInfo(Head(batch))>> ELSE <<>>)
         \o WellFormedRecords(Tail(batch))

\* C4: an element whose conversion fails is dropped alone: the call returns exactly
\* the records of the well-formed elements of the batch, in their order.
C4_MalformedElementDroppedAlone ==
    (last.op = "scrape_url" /\ cache[last.calls[1].url].present)
        => /\ last.exc = "none"
           /\ last.result = WellFormedRecords(cache[last.calls[1].url].raw)

C8_MissingKeyRaisesAtConstruction ==
    [][(/\ last'.op = "init"
        /\ last'.calls[1].openai_api_key = NoKeyGiven
        /\ last'.calls[1].env_key = NoKeyGiven)
       => /\ last'.exc = "ValueError"
          /\ ~last'.created
          /\ UNCHANGED <<constructed, api_key, cache, first>>]_vars

C8_Witness ==
    /\ last.op = "init"
    /\ last.calls[1].openai_api_key = NoKeyGiven
    /\ last.calls[1].env_key = NoKeyGiven
    /\ last.exc = "ValueError"
    /\ ~constructed

\* the uniqueness key of an offer
OfferKey(offer) == <<offer.instance_name, offer.location, offer.spot>>

\* C10: the list one get() call returns holds no two records with the same
\* (instance_name, location, spot).
C10_NoDuplicateOffers ==
    (last.op = "get" /\ last.exc = "none")
        => \A i, j \in 1..Len(last.result) :
              i # j => OfferKey(last.result[i]) # OfferKey(last.result[j])

(***************************************************************************)
(* Properties of default_catalog (checked under SpecCatalog)               *)
(***************************************************************************)
\* the providers among the first n of ONLINE_PROVIDERS that `keep` holds, in order
RECURSIVE FirstKept(_, _)
FirstKept(n, keep) ==
    IF n = 0 THEN <<>>
    ELSE FirstKept(n - 1, keep)
         \o (IF ONLINE_PROVIDERS[n] \in keep THEN <<ONLINE_PROVIDERS[n]>> ELSE <<>>)

\* C9: whatever providers fail to import or to construct, default_catalog never
\* raises, visits every provider of ONLINE_PROVIDERS, and returns a catalog that
\* holds every provider that was constructed and is not one of the skipped ones.
C9_FailuresContained ==
    /\ dc.pc # "raised"
    /\ dc.providers = FirstKept(dc.i - 1, dc.ok \ SkippedProviders)
    /\ dc.pc = "done" => dc.i = Len(ONLINE_PROVIDERS) + 1

C9_Witness ==
    /\ dc.pc = "done"
    /\ "cudo" \notin dc.ok /\ "linode" \notin dc.ok /\ "crusoe" \notin dc.ok
    /\ dc.providers = <<"tensordock", "vastai", "vultr", "latitude", "seeweb">>

(***************************************************************************)
(* Properties of the direct adapters (checked under SpecDirect)            *)
(***************************************************************************)
\* C6: when LatitudeProvider.get has fetched the pricing page and finds no build
\* token in it, it does not request the JSON endpoint and returns an empty list
\* without raising.
C6_MissingTokenSkipsPhaseTwo ==
    (/\ last.op = "latitude_get"
     /\ last.calls[1].status = "ok"
     /\ HashMissing(last.hash_value))
    => (/\ Len(last.calls) = 1
        /\ last.result = <<>>
        /\ last.exc = "none")

\* C7: when a fetch of LeaderGPUProvider.get or LatitudeProvider.get fails (a
\* status that is not 2xx, a timeout, a connection error), get() returns an empty
\* list and raises nothing.
C7_FetchFailureGivesEmptyList ==
    (/\ last.op \in {"latitude_get", "leadergpu_get"}
     /\ \E i \in 1..Len(last.calls) : last.calls[i].status \in FetchFailures)
    => (last.result = <<>> /\ last.exc = "none")

(***************************************************************************)
(* Properties of the Azure provider (checked under SpecAzure)              *)
(***************************************************************************)
\* the rules whose anchored pattern matches the name
MatchingRules(vm_name) ==
    {i \in DOMAIN gpu_vm_series : SeriesMatches(gpu_vm_series[i].pattern, vm_name)}

\* C11: get_gpu_name_memory returns the (gpu_name, gpu_memory) of the first rule
\* of gpu_vm_series, in list order, whose pattern anchored as ^Standard_<pattern>$
\* matches the VM name; for a name no rule matches it returns (None, None) and
\* does not raise.
C11_FirstMatchingRuleWins ==
    last.op = "get_gpu_name_memory" =>
        LET M == MatchingRules(last.calls[1]) IN
        /\ last.exc = "none"
        /\ M = {} => last.result = [gpu_name |-> "None", gpu_memory |-> NoNumber]
        /\ M # {} => /\ last.result.gpu_name = gpu_vm_series[Least(M)].gpu_name
                     /\ last.result.gpu_memory = gpu_vm_series[Least(M)].gpu_memory

C11_Witness ==
    /\ last.op = "get_gpu_name_memory"
    /\ last.calls[1] \in SyntheticNames(9)
    /\ last.result = [gpu_name |-> "V100", gpu_memory |-> Number(32 * Scale)]

\* C12: no rule is shadowed: a name Standard_<text matching exactly the pattern
\* of a rule> resolves to the (gpu_name, gpu_memory) of that rule.
C12_NoRuleShadowed ==
    last.op = "get_gpu_name_memory" =>
        \A i \in DOMAIN gpu_vm_series :
            last.calls[1] \in SyntheticNames(i) =>
                /\ last.result.gpu_name = gpu_vm_series[i].gpu_name
                /\ last.result.gpu_memory = gpu_vm_series[i].gpu_memory

C12_Witness ==
    /\ last.op = "get_gpu_name_memory"
    /\ last.calls[1] = <<"S", "t", "a", "n", "d", "a", "r", "d", "_", "N", "C", "2", "4", "r", "s", "_", "v", "2">>
    /\ last.result.gpu_name = "P100"

\* the SKU that fills the details of a name: the last virtual machine of that name
SkuOf(resources, name) ==
    LET at == {i \in 1..Len(resources) :
                 /\ resources[i].resource_type = "virtualMachines"
                 /\ resources[i].name = name}
    IN  IF at = {} THEN 0 ELSE Greatest(at)

\* an offer of the call whose SKU has a GPU capability and a name that no rule matches
UnknownGpuOffer(call, i) ==
    LET k == SkuOf(call.resources, call.offers[i].instance_name) IN
    /\ k # 0
    /\ call.resources[k].capabilities.GPUs.some
    /\ MatchingRules(call.offers[i].instance_name) = {}

\* C13: fill_details keeps an offer whose SKU has a GPU capability and a name that
\* matches no rule: the output holds it with gpu_name and gpu_memory null and with
\* cpu, memory and gpu_count from the SKU.
C13_UnknownGpuOfferKept ==
    (last.op = "fill_details" /\ last.exc = "none") =>
        \A i \in 1..Len(last.calls[1].offers) :
            UnknownGpuOffer(last.calls[1], i) =>
                LET offer == last.calls[1].offers[i]
                    sku   == last.calls[1].resources[SkuOf(last.calls[1].resources,
                                                           offer.instance_name)]
                IN  \E j \in 1..Len(last.result) :
                        /\ last.result[j].instance_name = offer.instance_name
                        /\ last.result[j].location = offer.location
                        /\ last.result[j].price = offer.price
                        /\ last.result[j].spot = offer.spot
                        /\ last.result[j].gpu_name = "None"
                        /\ last.result[j].gpu_memory = NoNumber
                        /\ last.result[j].cpu = sku.capabilities.vCPUs.text
                        /\ last.result[j].memory = DecimalValue(sku.capabilities.MemoryGB.text)
                        /\ last.result[j].gpu_count = DigitsToInt(sku.capabilities.GPUs.text)

C13_Witness ==
    /\ last.op = "fill_details"
    /\ last.exc = "none"
    /\ Len(last.calls[1].resources) = 2
    /\ Len(last.calls[1].offers) = 1
    /\ UnknownGpuOffer(last.calls[1], 1)
    /\ Len(last.result) = 1
    /\ last.result[1].gpu_name = "None"
    /\ last.result[1].gpu_count = 2

(***************************************************************************)
(* Properties of the conversion of the elements (checked under Spec)       *)
(***************************************************************************)
\* the call read a batch and returned: the batch is the cache entry of its url
ConvertedBatch ==
    /\ last.op = "scrape_url"
    /\ last.exc = "none"
    /\ cache[last.calls[1].url].present

BatchOfLast == cache[last.calls[1].url].raw

\* the 'vendor' field is a text that names a vendor other than NVIDIA
NamesOtherVendor(e) ==
    /\ e.f["vendor"].t = "str"
    /\ e.f["vendor"].s \notin {"", "nvidia", "Nvidia", "NVIDIA"}

\* C14: an element with no 'vendor' field yields a record with vendor NVIDIA, and
\* an element whose 'vendor' field names a vendor other than NVIDIA yields a record
\* with vendor AMD (stated for the batches whose elements all yield a record, so
\* that the i-th record is the record of the i-th element).
C14_VendorMapping ==
    (ConvertedBatch /\ Len(last.result) = Len(BatchOfLast)) =>
        \A i \in 1..Len(BatchOfLast) :
            /\ BatchOfLast[i].f["vendor"].t = "absent" => last.result[i].vendor = "NVIDIA"
            /\ NamesOtherVendor(BatchOfLast[i]) => last.result[i].vendor = "AMD"

\* the present fields of the element hold values of the record's types
WellTyped(e) ==
    /\ e.ismap
    /\ \A k \in {"memory", "price", "ram"} : e.f[k].t \in {"absent", "num", "numstr"}
    /\ \A k \in {"count", "cpu"} :
          \/ e.f[k].t = "absent"
          \/ e.f[k].t \in {"num", "numstr"} /\ e.f[k].n % Scale = 0
    /\ e.f["disk"].t \in {"absent", "null", "num", "numstr"}
    /\ e.f["vendor"].t \in {"absent", "str"}

NoPrimaryField(e) == \A k \in PrimaryKeys : e.f[k].t \in {"absent", "null"}

NumericKeys == {"count", "memory", "price", "cpu", "ram"}

\* the numbers the record is to hold: the default of a missing field, the value
\* of a present one
Defaulted(e, k) ==
    IF e.f[k].t = "absent" THEN (IF k = "count" THEN 1 ELSE 0)
    ELSE IF k \in {"count", "cpu"} THEN e.f[k].n \div Scale
    ELSE e.f[k].n

C16_DegenerateElementsDropped ==
    ConvertedBatch =>
        LET kept == {i \in 1..Len(BatchOfLast) :
                        BatchOfLast[i].ismap /\ ~NoPrimaryField(BatchOfLast[i])}
        IN  /\ Len(last.result) <= Cardinality(kept)
            /\ (\A i \in 1..Len(BatchOfLast) : WellTyped(BatchOfLast[i]))
                    => Len(last.result) = Cardinality(kept)

C16_Witness ==
    /\ ConvertedBatch
    /\ BatchOfLast = <<Degenerate, GoodA>>
    /\ Len(last.result) = 1
    /\ last.result[1].name = Str("A100")

(***************************************************************************)
(* Properties of the LeaderGPU parsers (checked under SpecParsers)         *)
(***************************************************************************)
\* GB, GiB and G in the letter cases of the samples
AnyCaseUnits == {<<"G", "B">>, <<"G", "i", "B">>, <<"G">>, <<"g", "b">>, <<"g", "i", "b">>, <<"g">>, <<"G", "b">>}

\* C17: parse_memory returns float(N) for "<N><unit>" and "<N> <unit>" with the
\* unit GB, GiB or G in any letter case, and 0.0 for None, the empty text and a
\* text that does not match.
C17_ParseMemoryAnyCase ==
    last.op = "parse_memory" =>
        LET s == last.calls[1] IN
        /\ (~s.some \/ s.text = <<>>) => last.result = 0
        /\ s = Some(<<"i", "n", "v", "a", "l", "i", "d">>) => last.result = 0
        /\ \A n \in MemoryNumbers, g \in Gaps, u \in AnyCaseUnits :
              s = Some(n.text \o g \o u) => last.result = n.value

\* r is p / d rounded to a whole number of units (4 decimal places), whichever
\* way a tie goes
Nearest(r, p, d) == 2 * (r * d - p) <= d /\ 2 * (p - r * d) <= d

\* the conversion by the first marker of month, week, day, minute in the text
Converted(r, amount, text) ==
    IF Contains(text, <<"m", "o", "n", "t", "h">>) THEN Nearest(r, amount, 24 * 30)
    ELSE IF Contains(text, <<"w", "e", "e", "k">>) THEN Nearest(r, amount, 24 * 7)
    ELSE IF Contains(text, <<"d", "a", "y">>) THEN Nearest(r, amount, 24)
    ELSE IF Contains(text, <<"m", "i", "n", "u", "t", "e">>) THEN r = amount * 60
    ELSE r = amount

C19_CountAndWholeModel ==
    last.op = "parse_gpu_count_and_model" =>
        LET s == last.calls[1] IN
        /\ (~s.some \/ s.text = <<>>) => last.result = [count |-> 0, model |-> <<>>]
        /\ \A m \in GpuModels :
              s = Some(<<"N", "V", "I", "D", "I", "A", " ">> \o m) => last.result = [count |-> 1, model |-> m]
        /\ \A c \in GpuCounts, m \in GpuModels :
              s = Some(c.text \o <<"x", " ", "N", "V", "I", "D", "I", "A", " ">> \o m)
                  => last.result = [count |-> c.value, model |-> m]

(***************************************************************************)
(* Properties of LeaderGPUProvider.get (checked under SpecDirect)          *)
(***************************************************************************)
\* the NVME sizes a section lists, as texts "<N> TB" or "<N> GB"
NvmeListed(section) ==
    {section.config.divs[i].span.text : i \in
        {k \in 1..Len(section.config.divs) :
            /\ StartsAt(section.config.divs[k].text, 1, <<"N", "V", "M", "E", ":">>)
            /\ section.config.divs[k].span.some}}

\* the size in GB: N * 1024 for N TB, N for N GB
ListedGB(size) ==
    LET n == DigitsToInt(SubSeq(size, 1, RunEnd(size, 1, Digits)))
    IN  IF StartsAt(size, Len(size) - 1, <<"T", "B">>) THEN n * 1024 * Scale ELSE n * Scale

\* C20: the disk_size of an offer of LeaderGPUProvider.get is the NVME size its
\* section lists, in GB: N * 1024 for "N TB", N for "N GB".
C20_DiskSizeInGB ==
    last.op = "leadergpu_get" =>
        \A j \in 1..Len(last.result) :
            \A s \in Sections :
                (~SectionSkipped(s) /\ SectionOffers[s] = <<last.result[j]>>)
                    => \A size \in NvmeListed(s) : last.result[j].disk_size = ListedGB(size)

\* the hourly amount in EUR that the section quotes (0 when it quotes none)
QuotedHourly(section) ==
    IF section.prices.some THEN HourlyPrice(section.prices.items, 1) ELSE 0

\* C21: the price of an offer of LeaderGPUProvider.get, whose source quotes EUR, is
\* the quoted amount as an hourly rate multiplied by the EUR-to-USD rate: no offer
\* carries an amount that is still in EUR.
C21_PriceInUSD ==
    last.op = "leadergpu_get" =>
        \A j \in 1..Len(last.result) :
            \A s \in Sections :
                (/\ ~SectionSkipped(s)
                 /\ SectionOffers[s] = <<last.result[j]>>
                 /\ QuotedHourly(s) > 0)
                    => Nearest(last.result[j].price, QuotedHourly(s) * EurToUsd, Scale)

\* C22: a record with gpu_count > 0 names its vendor: gpu_vendor is NVIDIA or AMD,
\* never null (LatitudeProvider and LeaderGPUProvider).
C22_VendorSetWhenGpus ==
    last.op \in {"latitude_get", "leadergpu_get"} =>
        \A j \in 1..Len(last.result) :
            last.result[j].gpu_count > 0 => last.result[j].gpu_vendor \in {"NVIDIA", "AMD"}

(***************************************************************************)
(* Properties of the extraction cache and of the calls of scrape_url       *)
(* (checked under Spec)                                                    *)
(***************************************************************************)
\* the logs of the scrape_url calls for url u that the step made
CallsFor(u) ==
    IF last'.op \in {"scrape_url", "get"}
    THEN {i \in 1..Len(last'.calls) : last'.calls[i].url = u}
    ELSE {}

\* C24: the cache is keyed by the url alone and never invalidated: once a batch is
\* cached for a url, no step on the same instance changes or removes the entry,
\* and every scrape_url call for that url, with or without override_content,
\* makes no HTTP fetch and no completion call and gives what the conversion of the
\* batch gave to the call that cached it.
C24_CacheNeverInvalidated ==
    [][\A u \in URLS :
          (cache[u].present /\ last'.op # "init")
          => /\ cache'[u] = cache[u]
             /\ \A i \in CallsFor(u) :
                   /\ last'.calls[i].hit
                   /\ last'.calls[i].fetches = 0
                   /\ last'.calls[i].completions = 0
             /\ (last'.op = "scrape_url" /\ last'.calls[1].url = u)
                   => /\ first[u].set
                      /\ last'.exc = first[u].exc
                      /\ last'.result = first[u].result]_vars

C24_Witness ==
    /\ last.op = "scrape_url"
    /\ last.calls[1].url = "u2"
    /\ last.calls[1].hit
    /\ last.calls[1].fetches = 0
    /\ last.calls[1].completions = 0
    /\ cache["u2"].raw = <<GoodA>>
    /\ Len(last.result) = 1

\* C25: one scrape_url call makes at most one HTTP fetch and at most one completion
\* call; a failed fetch ends it with an empty list and no completion call, a
\* failed completion ends it with an empty list, and neither is repeated.
C25_NoRetryInsideOneCall ==
    last.op = "scrape_url" =>
        LET log == last.calls[1] IN
        /\ log.fetches <= 1
        /\ log.completions <= 1
        /\ log.fetch \in FetchFailures
              => /\ log.fetches = 1
                 /\ log.completions = 0
                 /\ last.exc = "none"
                 /\ last.result = <<>>
        /\ log.resp \in ExtractFailures
              => /\ log.completions = 1
                 /\ last.exc = "none"
                 /\ last.result = <<>>

C25_Witness ==
    /\ last.op = "scrape_url"
    /\ last.calls[1].fetch = "timeout"
    /\ last.calls[1].fetches = 1
    /\ last.calls[1].completions = 0
    /\ last.result = <<>>

(***************************************************************************)
(* Properties of LinodeProvider.get (checked under SpecLinode)             *)
(***************************************************************************)
Ascending(offers) ==
    \A i, j \in 1..Len(offers) : i < j => offers[i].price <= offers[j].price

\* the two lists hold the same offers, each as many times
SameOffers(a, b) ==
    /\ Len(a) = Len(b)
    /\ \A k \in 1..Len(a) :
          Cardinality({i \in 1..Len(a) : a[i] = a[k]})
              = Cardinality({i \in 1..Len(b) : b[i] = a[k]})

\* C26: LinodeProvider.get makes its HTTP fetch on every call, before the cache is
\* looked at: when the fetch fails it returns an empty list, a cached batch
\* notwithstanding; when the fetch succeeds and the url is cached it makes no
\* completion call and returns the offers of the cached batch in ascending order
\* of price.
C26_LinodeFetchesBeforeCache ==
    [][last'.op = "linode_get" =>
          LET log == last'.calls[1]
              u   == urls[1]
          IN  /\ log.fetches = 1
              /\ last'.exc = "none"
              /\ log.fetch \in FetchFailures
                    => /\ last'.result = <<>>
                       /\ log.completions = 0
                       /\ cache' = cache
              /\ (log.fetch = "ok" /\ cache[u].present)
                    => /\ log.completions = 0
                       /\ cache' = cache
                       /\ Ascending(last'.result)
                       /\ first[u].exc = "none"
                             => SameOffers(last'.result, Offers(first[u].result))]_vars

C26_Witness ==
    /\ last.op = "linode_get"
    /\ last.calls[1].fetch = "http_error"
    /\ cache[urls[1]].present
    /\ cache[urls[1]].raw = <<GoodA, GoodB>>
    /\ last.result = <<>>

(***************************************************************************)
(* Properties of AzureProvider.get (checked under SpecAzureGet)           *)
(***************************************************************************)
EmptyLink(link) == link = NoText \/ link = Some(<<>>)

\* page k is cached with an empty link, and every page before it is cached with a
\* link that is not empty
FirstStop(cache_dir, k) ==
    /\ cache_dir[k] # NoFile
    /\ EmptyLink(cache_dir[k].NextPageLink)
    /\ \A j \in 0..(k - 1) :
          cache_dir[j] # NoFile /\ ~EmptyLink(cache_dir[j].NextPageLink)

\* the number of items of the pages before page p
RECURSIVE ItemsBefore(_, _)
ItemsBefore(cache_dir, p) ==
    IF p = 0 THEN 0 ELSE ItemsBefore(cache_dir, p - 1) + Len(cache_dir[p - 1].Items)

NamesSpot(meterName) ==
    \E i \in 1..Len(meterName) :
       /\ i + 3 <= Len(meterName)
       /\ meterName[i] = "S" /\ meterName[i + 1] = "p"
       /\ meterName[i + 2] = "o" /\ meterName[i + 3] = "t"

\* C27: AzureProvider.get reads the cached pages 0, 1, 2, ... in order and stops
\* after the first page k whose NextPageLink is empty: it reads pages 0..k and no
\* other, and returns one offer per item of these pages, in page order then item
\* order, each with the item's name, region and price and with spot true exactly
\* when the meterName contains "Spot".
C27_ReadsPagesUntilEmptyLink ==
    last.op = "azure_get" =>
       LET cache_dir == last.calls[1].cache_dir
           read      == last.calls[1].read
       IN  \A k \in DOMAIN cache_dir :
              FirstStop(cache_dir, k) =>
                 /\ last.exc = "none"
                 /\ read = [i \in 1..(k + 1) |-> i - 1]
                 /\ Len(last.result) = ItemsBefore(cache_dir, k + 1)
                 /\ \A p \in 0..k : \A i \in 1..Len(cache_dir[p].Items) :
                       LET item  == cache_dir[p].Items[i]
                           offer == last.result[ItemsBefore(cache_dir, p) + i]
                       IN  /\ offer.instance_name = item.armSkuName
                           /\ offer.location = item.armRegionName
                           /\ offer.price = item.retailPrice
                           /\ offer.spot = NamesSpot(item.meterName)

C27_Witness ==
    /\ last.op = "azure_get"
    /\ last.calls[1].read = <<0, 1>>
    /\ last.calls[1].cache_dir[2] # NoFile
    /\ Len(last.calls[1].cache_dir[2].Items) > 0
    /\ Len(last.result) = 4
    /\ last.result[1].spot /\ ~last.result[2].spot
    /\ ~last.result[3].spot /\ last.result[4].spot

(***************************************************************************)
(* Properties of the network calls (checked under SpecNetwork)             *)
(***************************************************************************)
\* C23: every request of a get() carries a timeout, so that a get() that waits for
\* its source returns in the end, whether the source answers or not.
C23_GetEventuallyReturns ==
    (last.op = "get_waiting") ~> (last.op = "get_returned")

====
